---- MODULE Spec2Model ----
(***************************************************************************)
(* A model of yamlpyowl's OntologyManager (src/src/yamlpyowl/core.py):     *)
(* the top-to-bottom load of a YAML document into a name space, the name   *)
(* resolver, the tree parse functions, the fact assignment, the relation    *)
(* concept expansion and the PropertyRestrictionParser.                      *)
(*                                                                           *)
(* Python strings are sequences of one-character strings, so that quoting,  *)
(* prefixes and generated names (f-strings) are computed, not assumed.      *)
(* YAML values, Python values and errors are tagged records.                *)
(***************************************************************************)
EXTENDS Integers, Sequences, FiniteSets, TLC

\* ------------------------------------------------------------------ bounds
\* number of top-level statements of a document
MaxStmts == 3
\* nesting depth of generated restriction bodies
MaxDepth == 5

\* ------------------------------------------------------- string literals
s_owl_Thing == <<"o", "w", "l", ":", "T", "h", "i", "n", "g">>
s_owl_Nothing == <<"o", "w", "l", ":", "N", "o", "t", "h", "i", "n", "g">>
s_Thing == <<"T", "h", "i", "n", "g">>
s_Nothing == <<"N", "o", "t", "h", "i", "n", "g">>
s_Functional == <<"F", "u", "n", "c", "t", "i", "o", "n", "a", "l">>
s_InverseFunctional == <<"I", "n", "v", "e", "r", "s", "e", "F", "u", "n", "c", "t", "i", "o", "n", "a", "l">>
s_Symmetric == <<"S", "y", "m", "m", "e", "t", "r", "i", "c">>
s_Transitive == <<"T", "r", "a", "n", "s", "i", "t", "i", "v", "e">>
s_Inverse == <<"I", "n", "v", "e", "r", "s", "e">>
s_int == <<"i", "n", "t">>
s_float == <<"f", "l", "o", "a", "t">>
s_str == <<"s", "t", "r">>
s_bool == <<"b", "o", "o", "l">>
s_Or == <<"O", "r">>
s_And == <<"A", "n", "d">>
s_Not == <<"N", "o", "t">>
s_some == <<"s", "o", "m", "e">>
s_value == <<"v", "a", "l", "u", "e">>
s_X_RelationConcept == <<"X", "_", "R", "e", "l", "a", "t", "i", "o", "n", "C", "o", "n", "c", "e", "p", "t">>
s_generic_RC_main_role == <<"g", "e", "n", "e", "r", "i", "c", "_", "R", "C", "_", "m", "a", "i", "n", "_", "r", "o", "l", "e">>
s_iri == <<"i", "r", "i">>
s_types == <<"t", "y", "p", "e", "s">>
s_EquivalentTo == <<"E", "q", "u", "i", "v", "a", "l", "e", "n", "t", "T", "o">>
s_SubClassOf == <<"S", "u", "b", "C", "l", "a", "s", "s", "O", "f">>
s_Domain == <<"D", "o", "m", "a", "i", "n">>
s_Range == <<"R", "a", "n", "g", "e">>
s_Facts == <<"F", "a", "c", "t", "s">>
s_Characteristics == <<"C", "h", "a", "r", "a", "c", "t", "e", "r", "i", "s", "t", "i", "c", "s">>
s_Subject == <<"S", "u", "b", "j", "e", "c", "t">>
s_Body == <<"B", "o", "d", "y">>
s_annotations == <<"a", "n", "n", "o", "t", "a", "t", "i", "o", "n", "s">>
s_labels == <<"l", "a", "b", "e", "l", "s">>
s_rc_facts == <<"_", "_", "r", "c", "_", "f", "a", "c", "t", "s">>
s_X_associatedWithClasses == <<"X", "_", "a", "s", "s", "o", "c", "i", "a", "t", "e", "d", "W", "i", "t", "h", "C", "l", "a", "s", "s", "e", "s">>
s_X_associatedRoles == <<"X", "_", "a", "s", "s", "o", "c", "i", "a", "t", "e", "d", "R", "o", "l", "e", "s">>
s_create_proxy_individual == <<"_", "_", "c", "r", "e", "a", "t", "e", "_", "p", "r", "o", "x", "y", "_", "i", "n", "d", "i", "v", "i", "d", "u", "a", "l">>
s_content_is_parsed == <<"_", "_", "c", "o", "n", "t", "e", "n", "t", "_", "i", "s", "_", "p", "a", "r", "s", "e", "d">>
s_OneOf == <<"O", "n", "e", "O", "f">>
s_name == <<"n", "a", "m", "e">>
s_src == <<"s", "r", "c">>
s_recursive == <<"r", "e", "c", "u", "r", "s", "i", "v", "e">>
s_True == <<"T", "r", "u", "e">>
s_import == <<"i", "m", "p", "o", "r", "t">>
s_annotation == <<"a", "n", "n", "o", "t", "a", "t", "i", "o", "n">>
s_owl_individual == <<"o", "w", "l", "_", "i", "n", "d", "i", "v", "i", "d", "u", "a", "l">>
s_owl_multiple_individuals == <<"o", "w", "l", "_", "m", "u", "l", "t", "i", "p", "l", "e", "_", "i", "n", "d", "i", "v", "i", "d", "u", "a", "l", "s">>
s_owl_class == <<"o", "w", "l", "_", "c", "l", "a", "s", "s">>
s_multiple_owl_classes == <<"m", "u", "l", "t", "i", "p", "l", "e", "_", "o", "w", "l", "_", "c", "l", "a", "s", "s", "e", "s">>
s_owl_object_property == <<"o", "w", "l", "_", "o", "b", "j", "e", "c", "t", "_", "p", "r", "o", "p", "e", "r", "t", "y">>
s_owl_data_property == <<"o", "w", "l", "_", "d", "a", "t", "a", "_", "p", "r", "o", "p", "e", "r", "t", "y">>
s_owl_inverse_property == <<"o", "w", "l", "_", "i", "n", "v", "e", "r", "s", "e", "_", "p", "r", "o", "p", "e", "r", "t", "y">>
s_property_facts == <<"p", "r", "o", "p", "e", "r", "t", "y", "_", "f", "a", "c", "t", "s">>
s_relation_concept_facts == <<"r", "e", "l", "a", "t", "i", "o", "n", "_", "c", "o", "n", "c", "e", "p", "t", "_", "f", "a", "c", "t", "s">>
s_restriction == <<"r", "e", "s", "t", "r", "i", "c", "t", "i", "o", "n">>
s_swrl_rule == <<"s", "w", "r", "l", "_", "r", "u", "l", "e">>
s_different_individuals == <<"d", "i", "f", "f", "e", "r", "e", "n", "t", "_", "i", "n", "d", "i", "v", "i", "d", "u", "a", "l", "s">>
s_names == <<"n", "a", "m", "e", "s">>
s_all == <<"_", "_", "a", "l", "l", "_", "_">>
s_ns == <<"n", "s">>
s_localpath == <<"l", "o", "c", "a", "l", "p", "a", "t", "h">>

\* ------------------------------------------------- Python string methods
\* str.startswith
StartsWith(s, prefix) ==
    Len(s) >= Len(prefix) /\ SubSeq(s, 1, Len(prefix)) = prefix

RECURSIVE ReplaceFrom(_, _, _)
\* str.replace(old, ""): every non-overlapping occurrence, scanning from the left
ReplaceFrom(s, old, i) ==
    IF i > Len(s) THEN <<>>
    ELSE IF Len(old) > 0 /\ i + Len(old) - 1 <= Len(s) /\ SubSeq(s, i, i + Len(old) - 1) = old
         THEN ReplaceFrom(s, old, i + Len(old))
         ELSE <<s[i]>> \o ReplaceFrom(s, old, i + 1)

RemoveAll(s, old) == ReplaceFrom(s, old, 1)

DigitChar == <<"0", "1", "2", "3", "4", "5", "6", "7", "8", "9">>

RECURSIVE IntToStr(_)
\* str(n) for n >= 0, as f"{n}" renders it
IntToStr(n) ==
    IF n < 10 THEN <<DigitChar[n + 1]>>
    ELSE IntToStr(n \div 10) \o <<DigitChar[(n % 10) + 1]>>

\* ------------------------------------------------ YAML and Python values
None == [t |-> "None"]
YStr(s) == [s |-> s, t |-> "str"]
YInt(i) == [i |-> i, t |-> "int"]
YBool(b) == [t |-> "bool", b |-> b]
YList(items) == [t |-> "list", items |-> items]
\* a dict keeps insertion order: a sequence of key/value pairs
KV(k, v) == [key |-> k, val |-> v]
YDict(pairs) == [t |-> "dict", pairs |-> pairs]
\* a dict whose keys are entities (the result of resolve_key_and_value)
EKV(e, v) == [val |-> v, ekey |-> e]
EDict(epairs) == [t |-> "edict", epairs |-> epairs]

IsNone(x) == x.t = "None"
IsStr(x) == x.t = "str"
IsNum(x) == x.t = "int"
IsList(x) == x.t = "list"
IsDict(x) == x.t = "dict"

HasKey(d, k) == \E i \in 1..Len(d.pairs) : d.pairs[i].key = k
\* d[k] for a key that is present
Item(d, k) == d.pairs[CHOOSE i \in 1..Len(d.pairs) : d.pairs[i].key = k].val
\* d.get(k): None when absent
DictGet(d, k) == IF HasKey(d, k) THEN Item(d, k) ELSE None
\* d[k] = v: an existing key keeps its position
DictSet(d, k, v) ==
    IF HasKey(d, k)
    THEN YDict([i \in 1..Len(d.pairs) |-> IF d.pairs[i].key = k THEN KV(k, v) ELSE d.pairs[i]])
    ELSE YDict(Append(d.pairs, KV(k, v)))

\* an entity of the ontology library (a class, a property, an individual, ...)
Ent(kind, name) == [t |-> "ent", kind |-> kind, name |-> name]
IsEnt(x) == x.t = "ent"

\* ------------------------------------------------------------ exceptions
NoErr == [type |-> "None"]
\* an exception: its class, the f-string of its message and the strings interpolated
\* into it; notes are the contexts appended to the message while it propagates
Err(type, fmt, args) == [type |-> type, fmt |-> fmt, args |-> args, notes |-> <<>>]
IsErr(e) == e.type # "None"
\* class UnknownEntityError(ValueError), class MissingKeywordError(ValueError)
ErrIsA(e, cls) ==
    \/ e.type = cls
    \/ cls = "Exception" /\ IsErr(e)
    \/ cls = "ValueError" /\ e.type \in {"UnknownEntityError", "MissingKeywordError"}

\* the result of a call: the returned value or the raised exception, and the
\* manager's state when the call ends
Ret(om, v) == [om |-> om, ret |-> v, err |-> NoErr]
Raise(om, e) == [om |-> om, ret |-> None, err |-> e]

\* a local variable: F applied to the value of x, the value computed once
Bind(x, F(_)) == F(x)

\* --------------------------------------- the ontology library (owlready2)
\* The library keeps every entity it created under its name (its IRI).
Thing == Ent("Class", s_Thing)
Nothing == Ent("Class", s_Nothing)
FunctionalProperty == Ent("Characteristic", s_Functional)
InverseFunctionalProperty == Ent("Characteristic", s_InverseFunctional)
\* the two property base classes; a property's kind is its base class
ObjectProperty == Ent("ObjectProperty", <<"O", "b", "j", "e", "c", "t", "P", "r", "o", "p", "e", "r", "t", "y">>)
DataProperty == Ent("DataProperty", <<"D", "a", "t", "a", "P", "r", "o", "p", "e", "r", "t", "y">>)

\* what the library stores for one entity
Entity(kind, is_a) ==
    [kind |-> kind, is_a |-> is_a, domain |-> <<>>, range |-> <<>>, chars |-> <<>>,
     inverse |-> None, vals |-> <<>>, equivalent_to |-> <<>>, comment |-> <<>>, label |-> <<>>]

\* f with f[k] = v, k added to the domain when new (dict item assignment)
Put(f, k, v) == [x \in (DOMAIN f) \cup {k} |-> IF x = k THEN v ELSE f[x]]

\* s extended by the elements of more that it does not hold yet
ExtendNew(s, more) ==
    s \o SelectSeq(more, LAMBDA e : \A i \in 1..Len(s) : s[i] # e)

\* Creating an entity under a name the library already knows returns the
\* entity it has, with the new parents added to its is_a.
\* type(class_name, (main_parent_class,), {}) followed by is_a.extend(rest)
owl_new_class(world, name, parents) ==
    IF name \in DOMAIN world
    THEN [world EXCEPT ![name].is_a = ExtendNew(@, parents)]
    ELSE Put(world, name, Entity("Class", parents))

\* main_type(name=individual_name)
owl_new_individual(world, name, main_type) ==
    IF name \in DOMAIN world
    THEN [world EXCEPT ![name].is_a = ExtendNew(@, <<main_type>>)]
    ELSE Put(world, name, Entity("Individual", <<main_type>>))

\* type(name, (property_base_class, *characteristics), kwargs); the library
\* keeps inverse_property symmetric
owl_new_property(world, name, base, chars, domain, range, inverse) ==
    Bind(    Put(world, name,
                 [Entity(base.kind, <<base>> \o chars) EXCEPT
                    !.domain = domain, !.range = range, !.chars = chars, !.inverse = inverse]), LAMBDA w :
       IF IsNone(inverse) THEN w
       ELSE [w EXCEPT ![inverse.name].inverse = Ent(base.kind, name)])

RECURSIVE Ancestors(_, _, _)
\* the classes reachable from cs through is_a, in at most fuel steps
Ancestors(world, cs, fuel) ==
    Bind(     cs \cup {p.name : p \in UNION {
                  {world[c].is_a[i] : i \in {j \in 1..Len(world[c].is_a) : IsEnt(world[c].is_a[j])}}
                  : c \in cs \cap DOMAIN world}}, LAMBDA up :
       IF fuel = 0 \/ up = cs THEN cs ELSE Ancestors(world, up, fuel - 1))

\* issubclass(c, target)
issubclass(world, c, target) ==
    target.name \in Ancestors(world, {c.name}, Cardinality(DOMAIN world))

\* Prop.is_functional_for(x): the property carries the Functional characteristic
is_functional_for(world, prop) ==
    \E i \in 1..Len(world[prop.name].chars) : world[prop.name].chars[i] = FunctionalProperty

\* getattr(indiv, prop.name): the stored value; [] (or None for a functional
\* property) when nothing was stored
owl_getattr(world, indiv, prop) ==
    IF prop.name \in DOMAIN world[indiv.name].vals
    THEN world[indiv.name].vals[prop.name]
    ELSE IF is_functional_for(world, prop) THEN None ELSE YList(<<>>)

owl_store(world, indiv, prop, value) ==
    [world EXCEPT ![indiv.name].vals = Put(@, prop.name, value)]

\* ------------------------------------------------------ OntologyManager
\* OntologyManager.__init__ up to the call of load_ontology
InitialNameMapping ==
    (s_owl_Thing :> Thing) @@ (s_owl_Nothing :> Nothing)
    @@ (s_Functional :> FunctionalProperty)
    @@ (s_InverseFunctional :> InverseFunctionalProperty)
    @@ (s_Symmetric :> Ent("Characteristic", s_Symmetric))
    @@ (s_Transitive :> Ent("Characteristic", s_Transitive))
    @@ (s_Inverse :> Ent("Function", s_Inverse))
    @@ (s_int :> Ent("PyType", s_int)) @@ (s_float :> Ent("PyType", s_float))
    @@ (s_str :> Ent("PyType", s_str)) @@ (s_bool :> Ent("PyType", s_bool))
    @@ (s_Or :> Ent("Function", s_Or)) @@ (s_And :> Ent("Function", s_And))
    @@ (s_Not :> Ent("Function", s_Not))
    @@ (s_some :> YStr(s_some)) @@ (s_value :> YStr(s_value))

InitialWorld ==
    (s_Thing :> Entity("Class", <<>>)) @@ (s_Nothing :> Entity("Class", <<Thing>>))

NewManager ==
    [world |-> InitialWorld,
     name_mapping |-> InitialNameMapping,
     roles |-> <<>>,
     concepts |-> <<>>,
     rules |-> <<>>,
     imported_ontologies |-> <<>>,
     RelationConcept |-> None,
     RelationConcept_generic_main_role |-> None,
     relation_concept_main_roles |-> <<>>,
     auto_generated_name_numbers |-> <<>>,
     custom_attribute_store |-> <<>>,
     objects |-> None,
     restriction_type_names |-> None,
     onto |-> [imported_ontologies |-> <<>>, metadata_comment |-> <<>>, all_different |-> <<>>]]

\* the pattern without its second alternative: only double quotes match
quoted_string_re_match_double_only(s) ==
    Len(s) >= 2 /\ s[1] = "\"" /\ s[Len(s)] = "\""

\* quoted_string_re = re.compile("(^\".*\"$)|(^'.*'$)"), used with .match
quoted_string_re_match(s) ==
    /\ Len(s) >= 2
    /\ \/ s[1] = "\"" /\ s[Len(s)] = "\""
       \/ s[1] = "'" /\ s[Len(s)] = "'"

\* ns_compositum_re = re.compile("(^.+:.+$)")
ns_compositum_re_match(s) == \E i \in 2..(Len(s) - 1) : s[i] = ":"

\* getattr(imported_onto, rest_name): the entity of that name, or None
owl_onto_getattr(onto, rest_name) ==
    IF rest_name \in onto.entities THEN Ent("Imported", rest_name) ELSE None

RECURSIVE resolve_in_imports(_, _, _)
\* the for loop of _resolve_name over imported_ontologies.items(), from item i
resolve_in_imports(imports, name, i) ==
    IF i > Len(imports) THEN [res |-> None, success |-> FALSE]
    ELSE IF StartsWith(name, imports[i].ns)
         THEN Bind(owl_onto_getattr(imports[i].onto, RemoveAll(name, imports[i].ns)), LAMBDA res :
                 [res |-> res, success |-> ~IsNone(res)])
         ELSE resolve_in_imports(imports, name, i + 1)

_resolve_name(om, name) ==
    IF name \in DOMAIN om.name_mapping
    THEN [res |-> om.name_mapping[name], success |-> TRUE]
    ELSE IF ns_compositum_re_match(name)
         THEN resolve_in_imports(om.imported_ontologies, name, 1)
         ELSE [res |-> None, success |-> FALSE]

\* resolve_name that returns every string it cannot resolve, whatever
\* accept_unquoted_strs is
resolve_name_lenient(om, object_or_name, accept_unquoted_strs) ==
    IF IsNum(object_or_name) THEN Ret(om, object_or_name)
    ELSE IF IsStr(object_or_name) /\ quoted_string_re_match(object_or_name.s)
    THEN Ret(om, object_or_name)
    ELSE IF IsStr(object_or_name)
    THEN Bind(_resolve_name(om, object_or_name.s), LAMBDA r :
            IF r.success THEN Ret(om, r.res) ELSE Ret(om, object_or_name))
    ELSE Raise(om, Err("TypeError", "unexpected type of object in method resolve_name", <<>>))

\* resolve_name(object_or_name, accept_unquoted_strs): [ret, err]
resolve_name(om, object_or_name, accept_unquoted_strs) ==
    IF IsNum(object_or_name) THEN Ret(om, object_or_name)
    ELSE IF IsStr(object_or_name) /\ quoted_string_re_match(object_or_name.s)
    THEN Ret(om, object_or_name)
    ELSE IF IsStr(object_or_name)
    THEN Bind(_resolve_name(om, object_or_name.s), LAMBDA r :
            IF r.success THEN Ret(om, r.res)
            ELSE IF accept_unquoted_strs THEN Ret(om, object_or_name)
            ELSE Raise(om, Err("UnknownEntityError", "unknown entity name: {}", <<object_or_name.s>>)))
    ELSE Raise(om, Err("TypeError", "unexpected type of object in method resolve_name", <<>>))

ensure_is_new_name(om, name) ==
    IF name \in DOMAIN om.name_mapping
    THEN Err("ValueError", "This concept name was declared more than once: {}", <<name>>)
    ELSE NoErr

\* ----------------------------------------------- results of pure calls
Val(v) == [ret |-> v, err |-> NoErr]
Fail(e) == [ret |-> None, err |-> e]

\* rs holds the result of the body of a loop (or comprehension) for every
\* element; the loop raises what its first failing element raises, and
\* otherwise yields the list of the values
Collect(rs) ==
    Bind({i \in 1..Len(rs) : IsErr(rs[i].err)}, LAMBDA bad :
       IF bad = {} THEN Val(YList([i \in 1..Len(rs) |-> rs[i].ret]))
       ELSE Fail(rs[CHOOSE i \in bad : \A j \in bad : i <= j].err))

\* ensure_list(obj)
ensure_list(obj) == IF IsList(obj) THEN obj ELSE YList(<<obj>>)

\* atom_or_And / atom_or_Or: arg[0] for a list of one element, else the connective
atom_or_And(arg) ==
    IF Len(arg.items) = 1 THEN arg.items[1] ELSE [t |-> "And", args |-> arg.items]

\* atom_or_Or building the other connective
atom_or_Or_as_And(arg) ==
    IF Len(arg.items) = 1 THEN arg.items[1] ELSE [t |-> "And", args |-> arg.items]

\* atom_or_Or(arg)
atom_or_Or(arg) ==
    IF Len(arg.items) = 1 THEN arg.items[1] ELSE [t |-> "Or", args |-> arg.items]

\* the parse functions registered in __init__ (normal_parse_functions):
\* outer: what outer_func does with the list of results
\*   "identity", "container" (containerFactoryFactory) or a connective;
\* wrapper: the container's struct_wrapper; inner: inner_func
TPF(outer, wrapper, inner, resolve_names, ensure_list_flag) ==
    [outer |-> outer, wrapper |-> wrapper, inner |-> inner,
     resolve_names |-> resolve_names, ensure_list_flag |-> ensure_list_flag, flat |-> FALSE]

normal_parse_functions ==
    (s_types :> TPF("identity", "identity", "identity", TRUE, FALSE))
    @@ (s_EquivalentTo :> TPF("container", "atom_or_And", "identity", TRUE, FALSE))
    @@ (s_SubClassOf :> TPF("identity", "identity", "identity", TRUE, TRUE))
    @@ (s_Domain :> TPF("container", "atom_or_Or", "identity", TRUE, TRUE))
    @@ (s_Range :> TPF("container", "atom_or_Or", "identity", TRUE, TRUE))
    @@ (s_Facts :> TPF("container", "identity", "resolve_key_and_value", FALSE, FALSE))
    @@ (s_Characteristics :> TPF("container", "identity", "identity", TRUE, FALSE))
    @@ (s_Inverse :> TPF("container", "identity", "identity", TRUE, FALSE))
    @@ (s_Subject :> TPF("container", "identity", "identity", TRUE, FALSE))
    @@ (s_Body :> TPF("container", "identity", "identity", TRUE, FALSE))
    @@ (s_annotations :> TPF("identity", "identity", "identity", FALSE, TRUE))
    @@ (s_labels :> TPF("identity", "identity", "identity", FALSE, TRUE))
    @@ (s_rc_facts :> TPF("identity", "identity", "resolve_key_and_value", FALSE, FALSE))
    @@ (s_X_associatedWithClasses :> TPF("identity", "identity", "identity", TRUE, TRUE))
    @@ (s_X_associatedRoles :> TPF("container", "identity", "resolve_key_and_value", FALSE, FALSE))
    @@ (s_create_proxy_individual :> [flat |-> TRUE])
    @@ (s_OneOf :> TPF("OneOf", "identity", "identity", TRUE, FALSE))
    @@ (s_Or :> TPF("Or", "identity", "identity", TRUE, FALSE))
    @@ (s_And :> TPF("And", "identity", "identity", TRUE, FALSE))

\* _resolve_yaml_key(data_dict, key) on a table of parse functions
KeyNotFound(key, shown) ==
    [Err("KeyError", "Key {} not found in current part of in yaml-file: complete data: {}", <<key>>)
     EXCEPT !.notes = <<[by |-> "_resolve_yaml_key", doc |-> shown]>>]

\* resolve_key_and_value(data_dict): the keys resolved as names, the values
\* resolved with accept_unquoted_strs=True
resolve_value(om, raw_value) ==
    IF IsStr(raw_value) THEN resolve_name(om, raw_value, TRUE)
    ELSE IF IsList(raw_value)
    THEN Collect([i \in 1..Len(raw_value.items) |-> resolve_name(om, raw_value.items[i], TRUE)])
    ELSE Val(raw_value)

resolve_key_and_value(om, data_dict) ==
    IF \/ ~IsDict(data_dict)
       \/ \E i \in 1..Len(data_dict.pairs) : data_dict.pairs[i].val.t \notin {"str", "list", "int"}
    THEN Fail(Err("TypeError", "Unexpected type. Got: {}. Expected: {}", <<>>))
    ELSE Bind(Len(data_dict.pairs), LAMBDA n :
             Bind([i \in 1..n |-> resolve_name(om, YStr(data_dict.pairs[i].key), FALSE)], LAMBDA ks :
             Bind([i \in 1..n |-> resolve_value(om, data_dict.pairs[i].val)], LAMBDA vs :
             \* per pair: the key is resolved first, then the value
             Bind([i \in 1..n |-> IF IsErr(ks[i].err) THEN ks[i] ELSE vs[i]], LAMBDA rs :
             Bind(Collect(rs), LAMBDA all :
            IF IsErr(all.err) THEN all
            ELSE Val(EDict([i \in 1..n |-> EKV(ks[i].ret, vs[i].ret)])))))))

\* the container left without the name of its keyword
OntoContainer_unnamed(container_name, struct_wrapper, arg) ==
    [t |-> "container", name |-> <<>>,
     data |-> CASE struct_wrapper = "atom_or_And" -> atom_or_And(arg)
                [] struct_wrapper = "atom_or_Or" -> atom_or_Or(arg)
                [] OTHER -> arg]

\* containerFactoryFactory(container_name, struct_wrapper).outer_func(arg)
OntoContainer(container_name, struct_wrapper, arg) ==
    [t |-> "container", name |-> container_name,
     data |-> CASE struct_wrapper = "atom_or_And" -> atom_or_And(arg)
                [] struct_wrapper = "atom_or_Or" -> atom_or_Or(arg)
                [] OTHER -> arg]

\* _process_name resolving with accept_unquoted_strs=True: a name that is not
\* declared is passed on as a string
_process_name_lenient(om, tpf, obj) ==
    IF tpf.resolve_names
    THEN IF ~IsStr(obj) THEN Fail(Err("AssertionError", "", <<>>))
         ELSE resolve_name(om, obj, TRUE)
    ELSE Val(obj)

\* TreeParseFunction._process_name(obj)
_process_name(om, tpf, obj) ==
    IF tpf.resolve_names
    THEN IF ~IsStr(obj) THEN Fail(Err("AssertionError", "", <<>>))
         ELSE resolve_name(om, obj, FALSE)
    ELSE Val(obj)

inner_func(om, tpf, r) ==
    IF IsErr(r.err) THEN r
    ELSE IF tpf.inner = "resolve_key_and_value" THEN resolve_key_and_value(om, r.ret)
    ELSE r

outer_func(name, tpf, results) ==
    CASE tpf.outer = "container" -> OntoContainer(name, tpf.wrapper, results)
      [] tpf.outer \in {"OneOf", "Or", "And"} -> [t |-> tpf.outer, args |-> results.items]
      [] OTHER -> results

RECURSIVE TreeParseFunction(_, _, _)
\* TreeParseFunction.__call__(arg) of the parse function registered as name
TreeParseFunction(om, name, arg) ==
    Bind(normal_parse_functions[name], LAMBDA tpf :
       IF tpf.flat THEN Val(arg)
       ELSE IF IsList(arg)
       THEN Bind(          Collect([i \in 1..Len(arg.items) |->
                                       inner_func(om, tpf, _process_name(om, tpf, arg.items[i]))]), LAMBDA results :
               IF IsErr(results.err) THEN results ELSE Val(outer_func(name, tpf, results.ret)))
       ELSE IF IsDict(arg)
       THEN Bind(          Collect([i \in 1..Len(arg.pairs) |->
                    \* key_func = self.om.normal_parse_functions.get(key); key_func(value)
                    IF arg.pairs[i].key \in DOMAIN normal_parse_functions
                    THEN TreeParseFunction(om, arg.pairs[i].key, arg.pairs[i].val)
                    ELSE Fail(Err("TypeError", "'NoneType' object is not callable", <<>>))]), LAMBDA results :
               IF IsErr(results.err) THEN results ELSE Val(outer_func(name, tpf, results.ret)))
       ELSE IF IsStr(arg)
       THEN IF tpf.ensure_list_flag THEN TreeParseFunction(om, name, YList(<<arg>>))
            ELSE _process_name(om, tpf, arg)
       ELSE Fail(Err("TypeError", "unexpected type of value in TreeParseFunction {}.", <<name>>)))

\* process_tree(normal_dict, squeeze): the dict of the parsed values by key
process_tree(om, normal_dict, squeeze) ==
    IF Len(normal_dict.pairs) = 0 THEN Fail(Err("AssertionError", "", <<>>))
    ELSE Bind(Len(normal_dict.pairs), LAMBDA n :
             Bind( [i \in 1..n |->
                      Bind(normal_dict.pairs[i].key, LAMBDA key :
                         IF key \notin DOMAIN normal_parse_functions
                         THEN Fail(KeyNotFound(key, [t |-> "table", which |-> "normal_parse_functions"]))
                         ELSE Bind(TreeParseFunction(om, key, normal_dict.pairs[i].val), LAMBDA r :
                                 IF r.err.type = "UnknownEntityError"
                                 THEN Fail([r.err EXCEPT !.notes =
                                        Append(@, [by |-> "process_tree", doc |-> normal_dict])])
                                 ELSE r))], LAMBDA rs :
             Bind(Collect(rs), LAMBDA all :
            IF IsErr(all.err) THEN all
            ELSE IF squeeze
            THEN IF n # 1 THEN Fail(Err("AssertionError", "", <<>>)) ELSE Val(all.ret.items[n])
            ELSE Val(YDict([i \in 1..n |-> KV(normal_dict.pairs[i].key, all.ret.items[i])])))))

\* ------------------------------------------------- individuals, classes
IsClass(x) == IsEnt(x) /\ x.kind \in {"Class", "Imported"}
IsThing(x) == IsEnt(x) /\ x.kind = "Individual"
IsProperty(x) == IsEnt(x) /\ x.kind \in {"ObjectProperty", "DataProperty"}
\* unpack_len1_mapping / check_type(data_dict, Dict[str, dict]) hold of data_dict
IsLen1DictOfDict(d) == IsDict(d) /\ Len(d.pairs) = 1 /\ IsDict(d.pairs[1].val)

\* _create_individual without the check of len(types): the individual of
\* several types is registered under its first type
_create_individual_of_many(om, individual_name, types) ==
    IF ~IsList(types)
    THEN Raise(om, Err("TypeError", "object is not subscriptable", <<>>))
    ELSE IF Len(types.items) = 0
    THEN Raise(om, Err("IndexError", "list index out of range", <<>>))
    ELSE Bind(types.items[1], LAMBDA main_type :
            IF ~IsClass(main_type)
            THEN Raise(om, Err("TypeError", "object is not callable", <<>>))
            ELSE Bind(Ent("Individual", individual_name), LAMBDA ind :
                    Ret([om EXCEPT !.world = owl_new_individual(@, individual_name, main_type),
                                   !.name_mapping = Put(@, individual_name, ind)], ind)))

\* _create_individual(individual_name, types)
_create_individual(om, individual_name, types) ==
    IF ~IsList(types)
    THEN Raise(om, Err("TypeError", "object is not subscriptable", <<>>))
    ELSE IF Len(types.items) = 0
    THEN Raise(om, Err("IndexError", "list index out of range", <<>>))
    ELSE Bind(types.items[1], LAMBDA main_type :
            IF ~IsClass(main_type)
            THEN Raise(om, Err("TypeError", "object is not callable", <<>>))
            ELSE Bind(Ent("Individual", individual_name), LAMBDA ind :
                     Bind([om EXCEPT !.world = owl_new_individual(@, individual_name, main_type)], LAMBDA om1 :
                    IF Len(types.items) > 1
                    THEN Raise(om1, Err("NotImplementedError", "", <<>>))
                    ELSE Ret([om1 EXCEPT !.name_mapping = Put(@, individual_name, ind)], ind))))

\* make_individual_from_dict(data_dict)
make_individual_from_dict(om, data_dict) ==
    IF ~IsDict(data_dict) \/ Len(data_dict.pairs) # 1
    THEN Raise(om, Err("AssertionError", "", <<>>))
    ELSE IF ~IsDict(data_dict.pairs[1].val)
    THEN Raise(om, Err("TypeError", "Unexpected type. Got: {}. Expected: {}", <<>>))
    ELSE Bind(data_dict.pairs[1].key, LAMBDA individual_name :
             Bind(data_dict.pairs[1].val, LAMBDA inner_dict :
             Bind(ensure_is_new_name(om, individual_name), LAMBDA e :
             Bind(process_tree(om, YDict(<<KV(s_types, DictGet(inner_dict, s_types))>>), TRUE), LAMBDA types :
            IF IsErr(e) THEN Raise(om, e)
            ELSE IF IsErr(types.err) THEN Raise(om, types.err)
            ELSE _create_individual(om, individual_name, types.ret)))))

\* ------------------------------------------------------ fact assignment
\* setattr(key, prop.name, value) for a functional property: the value replaces
\* the stored one. An object property takes entities only: for another value
\* the library raises the AttributeError that the callers catch. With an
\* inverse property and a class as value (owl:Nothing) the library's inverse
\* bookkeeping raises AttributeError after storing.
owl_setattr(om, key, prop, value) ==
    IF ~IsEnt(key) \/ key.name \notin DOMAIN om.world
    THEN Raise(om, Err("TypeError", "cannot set attribute", <<>>))
    ELSE IF prop.kind = "ObjectProperty" /\ ~IsEnt(value)
    THEN Raise(om, Err("AttributeError", "object has no attribute 'storid'", <<>>))
    ELSE Bind([om EXCEPT !.world = owl_store(@, key, prop, value)], LAMBDA om1 :
            IF ~IsNone(om.world[prop.name].inverse) /\ IsClass(value)
            THEN Raise(om1, Err("AttributeError", "'mappingproxy' object has no attribute 'pop'", <<>>))
            ELSE Ret(om1, None))

\* getattr(key, prop.name).extend(values) for a non-functional property; an
\* object property takes entities only
owl_extend(om, key, prop, values) ==
    IF ~IsEnt(key) \/ key.name \notin DOMAIN om.world
    THEN Raise(om, Err("AttributeError", "object has no attribute {}", <<prop.name>>))
    ELSE IF prop.kind = "ObjectProperty" /\ \E i \in 1..Len(values) : ~IsEnt(values[i])
    THEN Raise(om, Err("AttributeError", "object has no attribute 'storid'", <<>>))
    ELSE Bind(owl_getattr(om.world, key, prop), LAMBDA old :
            IF ~IsList(old)
            THEN Raise(om, Err("AttributeError", "object has no attribute 'extend'", <<>>))
            ELSE Ret([om EXCEPT !.world = owl_store(@, key, prop, YList(old.items \o values))],
                     None))

\* _handle_data_property_error(prop, value, original_err)
_handle_data_property_error(om, prop, value, original_err) ==
    IF Len(ensure_list(value).items) = 0
    THEN Raise(om, Err("IndexError", "list index out of range", <<>>))
    ELSE IF prop.kind = "ObjectProperty" /\ ensure_list(value).items[1].t \in {"int", "str"}
    THEN Raise(om, Err("TypeError", "Unable to store value of type {} to ObjectProperty {}. Probably this should be a DataProperty instead.", <<prop.name>>))
    ELSE Raise(om, original_err)

\* the else branch assigning the values of the fact instead of appending them
extend_values_overwrite(om, key, prop, value) ==
    IF ~IsEnt(key) \/ key.name \notin DOMAIN om.world
    THEN Raise(om, Err("AttributeError", "object has no attribute {}", <<prop.name>>))
    ELSE Ret([om EXCEPT !.world = owl_store(@, key, prop, ensure_list(value))], None)

\* the else branch of the loop of process_property_facts: the values of a
\* fact of a non-functional property are appended to the stored ones
extend_values(om, key, prop, value) ==
    Bind(owl_extend(om, key, prop, ensure_list(value).items), LAMBDA r :
       IF r.err.type = "AttributeError"
       THEN _handle_data_property_error(r.om, prop, value, r.err)
       ELSE r)

\* the body of the loop with the type of the first value checked only
process_fact_first_value_checked(om, prop, fact) ==
    IF fact.t # "edict" \/ Len(fact.epairs) # 1
    THEN Raise(om, Err("AssertionError", "", <<>>))
    ELSE Bind(fact.epairs[1].ekey, LAMBDA key :
             Bind(fact.epairs[1].val, LAMBDA value :
             Bind(ensure_list(value).items, LAMBDA vals :
            \* check if all values have the right type
            IF prop.kind = "ObjectProperty"
               /\ \E i \in 1..Len(vals) : i = 1 /\ ~(IsThing(vals[i]) \/ IsClass(vals[i]))
            THEN Raise(om, Err("TypeError", "Unexpected type for property {}. Expected an instance of owl:Thing", <<prop.name>>))
            ELSE IF is_functional_for(om.world, prop)
            THEN IF IsList(value)
                 THEN Raise(om, Err("TypeError", "While assigning range-value of functional property {}: Expected scalar", <<prop.name>>))
                 ELSE Bind(owl_setattr(om, key, prop, value), LAMBDA r :
                         IF r.err.type = "AttributeError"
                         THEN IF r.err.fmt = "'mappingproxy' object has no attribute 'pop'"
                              THEN Ret(r.om, None)
                              ELSE _handle_data_property_error(r.om, prop, value, r.err)
                         ELSE r)
            ELSE extend_values(om, key, prop, value))))

\* the body of the loop with no AttributeError of setattr suppressed
process_fact_nothing_suppressed(om, prop, fact) ==
    IF fact.t # "edict" \/ Len(fact.epairs) # 1
    THEN Raise(om, Err("AssertionError", "", <<>>))
    ELSE Bind(fact.epairs[1].ekey, LAMBDA key :
             Bind(fact.epairs[1].val, LAMBDA value :
             Bind(ensure_list(value).items, LAMBDA vals :
            \* check if all values have the right type
            IF prop.kind = "ObjectProperty"
               /\ \E i \in 1..Len(vals) : ~(IsThing(vals[i]) \/ IsClass(vals[i]))
            THEN Raise(om, Err("TypeError", "Unexpected type for property {}. Expected an instance of owl:Thing", <<prop.name>>))
            ELSE IF is_functional_for(om.world, prop)
            THEN IF IsList(value)
                 THEN Raise(om, Err("TypeError", "While assigning range-value of functional property {}: Expected scalar", <<prop.name>>))
                 ELSE Bind(owl_setattr(om, key, prop, value), LAMBDA r :
                         IF r.err.type = "AttributeError"
                         THEN _handle_data_property_error(r.om, prop, value, r.err)
                         ELSE r)
            ELSE extend_values(om, key, prop, value))))

\* the body of the loop of process_property_facts for one fact
process_fact(om, prop, fact) ==
    IF fact.t # "edict" \/ Len(fact.epairs) # 1
    THEN Raise(om, Err("AssertionError", "", <<>>))
    ELSE Bind(fact.epairs[1].ekey, LAMBDA key :
             Bind(fact.epairs[1].val, LAMBDA value :
             Bind(ensure_list(value).items, LAMBDA vals :
            \* check if all values have the right type
            IF prop.kind = "ObjectProperty"
               /\ \E i \in 1..Len(vals) : ~(IsThing(vals[i]) \/ IsClass(vals[i]))
            THEN Raise(om, Err("TypeError", "Unexpected type for property {}. Expected an instance of owl:Thing", <<prop.name>>))
            ELSE IF is_functional_for(om.world, prop)
            THEN IF IsList(value)
                 THEN Raise(om, Err("TypeError", "While assigning range-value of functional property {}: Expected scalar", <<prop.name>>))
                 ELSE Bind(owl_setattr(om, key, prop, value), LAMBDA r :
                         IF r.err.type = "AttributeError"
                         THEN IF r.err.fmt = "'mappingproxy' object has no attribute 'pop'"
                              THEN Ret(r.om, None)
                              ELSE _handle_data_property_error(r.om, prop, value, r.err)
                         ELSE r)
            ELSE extend_values(om, key, prop, value))))

RECURSIVE process_facts_from(_, _, _, _)
\* the loop of process_property_facts from the i-th fact on
process_facts_from(om, prop, fact_data, i) ==
    IF i > Len(fact_data) THEN Ret(om, None)
    ELSE Bind(process_fact(om, prop, fact_data[i]), LAMBDA r :
            IF IsErr(r.err) THEN r ELSE process_facts_from(r.om, prop, fact_data, i + 1))

\* process_property_facts(prop, processed_inner_dict)
process_property_facts(om, prop, processed_inner_dict) ==
    Bind(DictGet(processed_inner_dict, s_Facts), LAMBDA facts :
       IF IsNone(facts) THEN Ret(om, None)
       ELSE IF facts.t # "container"
       THEN Raise(om, Err("AttributeError", "object has no attribute 'data'", <<>>))
       ELSE process_facts_from(om, prop, facts.data.items, 1))

\* ------------------------------------------------------------ properties
\* create_property(name, property_base_class, characteristics, kwargs)
create_property(om, name, property_base_class, characteristics, domain, range, inverse) ==
    IF \E i \in 1..Len(characteristics) :
          ~(IsEnt(characteristics[i]) /\ characteristics[i].kind = "Characteristic")
    THEN Raise(om, Err("TypeError", "metaclass conflict", <<>>))
    ELSE Ret([om EXCEPT !.world = owl_new_property(@, name, property_base_class,
                                      characteristics, domain, range, inverse)],
             Ent(property_base_class.kind, name))

\* obj.data of a parsed value: only a container has it
DataOf(x) == IF x.t = "container" THEN Val(x.data)
             ELSE Fail(Err("AttributeError", "object has no attribute 'data'", <<>>))

\* _create_property_from_dict_and_type(data_dict, property_base_class)
_create_property_from_dict_and_type(om, data_dict, property_base_class) ==
    IF ~IsLen1DictOfDict(data_dict) THEN Raise(om, Err("AssertionError", "", <<>>))
    ELSE
    Bind(data_dict.pairs[1].key, LAMBDA name :
        Bind(data_dict.pairs[1].val, LAMBDA inner_dict :
        Bind(~IsNone(DictGet(inner_dict, s_content_is_parsed)), LAMBDA parsed :
        Bind(IF parsed THEN Val(inner_dict) ELSE process_tree(om, inner_dict, FALSE), LAMBDA pt :
       IF IsErr(pt.err) THEN Raise(om, pt.err)
       ELSE
       Bind(pt.ret, LAMBDA processed_inner_dict :
           Bind(HasKey(processed_inner_dict, s_Range), LAMBDA hasR :
           Bind(HasKey(processed_inner_dict, s_Domain), LAMBDA hasD :
           Bind( IF ~hasR THEN Fail(Err("KeyError", "{}", <<s_Range>>))
                 ELSE IF parsed THEN Val(Item(processed_inner_dict, s_Range))
                 ELSE DataOf(Item(processed_inner_dict, s_Range)), LAMBDA rd :
           Bind( IF ~hasD THEN Fail(Err("KeyError", "{}", <<s_Domain>>))
                 ELSE IF parsed THEN Val(Item(processed_inner_dict, s_Domain))
                 ELSE DataOf(Item(processed_inner_dict, s_Domain)), LAMBDA dd :
           Bind(DictGet(processed_inner_dict, s_Characteristics), LAMBDA characteristics_container :
           Bind( IF IsNone(characteristics_container) THEN Val(YList(<<>>))
                 ELSE DataOf(characteristics_container), LAMBDA cd :
          IF IsErr(rd.err) THEN Raise(om, rd.err)
          ELSE IF IsErr(dd.err) THEN Raise(om, dd.err)
          ELSE IF IsErr(cd.err) THEN Raise(om, cd.err)
          ELSE
          Bind(    create_property(om, name, property_base_class, cd.ret.items,
                                   ensure_list(dd.ret).items, ensure_list(rd.ret).items, None), LAMBDA c :
             IF IsErr(c.err) THEN c
             ELSE Bind(c.ret, LAMBDA new_property :
                      Bind(  [c.om EXCEPT !.name_mapping = Put(@, name, new_property),
                                          !.roles = Put(@, name, new_property)], LAMBDA om1 :
                      Bind(process_property_facts(om1, new_property, processed_inner_dict), LAMBDA f :
                     IF IsErr(f.err) THEN f ELSE Ret(f.om, new_property))))))))))))))))

make_object_property_from_dict(om, data_dict) ==
    _create_property_from_dict_and_type(om, data_dict, ObjectProperty)

make_data_property_from_dict(om, data_dict) ==
    _create_property_from_dict_and_type(om, data_dict, DataProperty)

\* make_inverse_property_from_dict giving the new property the
\* characteristics of the existing one
make_inverse_property_from_dict_same_characteristics(om, data_dict) ==
    IF ~IsLen1DictOfDict(data_dict) THEN Raise(om, Err("AssertionError", "", <<>>))
    ELSE
    Bind(data_dict.pairs[1].key, LAMBDA name :
        Bind(process_tree(om, data_dict.pairs[1].val, FALSE), LAMBDA pt :
       IF IsErr(pt.err) THEN Raise(om, pt.err)
       ELSE
       Bind(pt.ret, LAMBDA processed_inner_dict :
           Bind(DictGet(processed_inner_dict, s_Inverse), LAMBDA existing_inverse_property :
          IF IsNone(existing_inverse_property)
          THEN Raise(om, Err("MissingKeywordError", "keyword Inverse is required in owl_inverse_property: {}", <<name>>))
          ELSE IF ~IsProperty(existing_inverse_property)
          THEN \* existing_inverse_property.range on something that is no property
               Raise(om, Err("AttributeError", "object has no attribute 'range'", <<>>))
          ELSE
          LET q == om.world[existing_inverse_property.name]
              has(ch) == \E i \in 1..Len(q.chars) : q.chars[i] = ch
              characteristics ==
                  (IF has(FunctionalProperty) THEN <<FunctionalProperty>> ELSE <<>>)
                  \o (IF has(InverseFunctionalProperty) THEN <<InverseFunctionalProperty>> ELSE <<>>)
          IN
             Bind(IF q.kind = "ObjectProperty" THEN ObjectProperty ELSE DataProperty, LAMBDA base :
                 Bind(create_property(om, name, base, characteristics, q.range, q.domain,
                                      existing_inverse_property), LAMBDA c :
                 Bind(process_property_facts(c.om, c.ret, processed_inner_dict), LAMBDA f :
                IF IsErr(f.err) THEN f
                ELSE Ret([f.om EXCEPT !.name_mapping = Put(@, name, c.ret),
                                      !.roles = Put(@, name, c.ret)], c.ret))))))))

\* make_inverse_property_from_dict(data_dict)
make_inverse_property_from_dict(om, data_dict) ==
    IF ~IsLen1DictOfDict(data_dict) THEN Raise(om, Err("AssertionError", "", <<>>))
    ELSE
    Bind(data_dict.pairs[1].key, LAMBDA name :
        Bind(process_tree(om, data_dict.pairs[1].val, FALSE), LAMBDA pt :
       IF IsErr(pt.err) THEN Raise(om, pt.err)
       ELSE
       Bind(pt.ret, LAMBDA processed_inner_dict :
           Bind(DictGet(processed_inner_dict, s_Inverse), LAMBDA existing_inverse_property :
          IF IsNone(existing_inverse_property)
          THEN Raise(om, Err("MissingKeywordError", "keyword Inverse is required in owl_inverse_property: {}", <<name>>))
          ELSE IF ~IsProperty(existing_inverse_property)
          THEN \* existing_inverse_property.range on something that is no property
               Raise(om, Err("AttributeError", "object has no attribute 'range'", <<>>))
          ELSE
          LET q == om.world[existing_inverse_property.name]
              has(ch) == \E i \in 1..Len(q.chars) : q.chars[i] = ch
              characteristics ==
                  (IF has(InverseFunctionalProperty) THEN <<FunctionalProperty>> ELSE <<>>)
                  \o (IF has(FunctionalProperty) THEN <<InverseFunctionalProperty>> ELSE <<>>)
          IN
             Bind(IF q.kind = "ObjectProperty" THEN ObjectProperty ELSE DataProperty, LAMBDA base :
                 Bind(create_property(om, name, base, characteristics, q.range, q.domain,
                                      existing_inverse_property), LAMBDA c :
                 Bind(process_property_facts(c.om, c.ret, processed_inner_dict), LAMBDA f :
                IF IsErr(f.err) THEN f
                ELSE Ret([f.om EXCEPT !.name_mapping = Put(@, name, c.ret),
                                      !.roles = Put(@, name, c.ret)], c.ret))))))))

\* ---------------------------------------------------------------- classes
\* _create_rc_roles leaving the new main role out of the sub-properties of the
\* generic main role
_create_rc_roles_unlinked(om, relation_concept, concept_name, concept_data) ==
    Bind(om.world[relation_concept.name].is_a, LAMBDA is_a :
       IF \/ ~\E i \in 1..Len(is_a) : is_a[i] = om.RelationConcept
          \/ ~StartsWith(concept_name, <<"X", "_">>)
          \/ ~HasKey(concept_data, s_X_associatedWithClasses)
       THEN Raise(om, Err("AssertionError", "", <<>>))
       ELSE
       Bind(<<"X", "_", "h", "a", "s">> \o SubSeq(concept_name, 3, Len(concept_name)), LAMBDA main_role_name :
           Bind(Item(concept_data, s_X_associatedWithClasses), LAMBDA main_role_domain_list :
          IF ~IsList(main_role_domain_list)
             \/ \E i \in 1..Len(main_role_domain_list.items) :
                   ~(IsClass(main_role_domain_list.items[i])
                     \/ main_role_domain_list.items[i].t \in {"Or", "And", "OneOf", "restr"})
          THEN Raise(om, Err("TypeError", "Unexpected type. Got: {}. Expected: {}", <<>>))
          ELSE
          Bind(    make_object_property_from_dict(om, YDict(<<KV(main_role_name, YDict(<<
                        KV(s_Domain, main_role_domain_list),
                        KV(s_Range, YList(<<relation_concept>>)),
                        KV(s_content_is_parsed, YBool(TRUE))>>))>>)), LAMBDA r :
             IF IsErr(r.err) THEN r
             ELSE
             Bind(r.ret, LAMBDA main_role :
                 Bind(  [r.om EXCEPT !.relation_concept_main_roles = Append(@, main_role)], LAMBDA om1 :
                 Bind(DictGet(concept_data, s_X_associatedRoles), LAMBDA further_roles_list :
                IF IsNone(further_roles_list) THEN Ret(om1, None)
                ELSE \* the loop iterates the container itself
                     Raise(om1, Err("TypeError", "'OntoContainer' object is not iterable", <<>>)))))))))

\* _create_rc_roles(relation_concept, concept_name, concept_data)
_create_rc_roles(om, relation_concept, concept_name, concept_data) ==
    Bind(om.world[relation_concept.name].is_a, LAMBDA is_a :
       IF \/ ~\E i \in 1..Len(is_a) : is_a[i] = om.RelationConcept
          \/ ~StartsWith(concept_name, <<"X", "_">>)
          \/ ~HasKey(concept_data, s_X_associatedWithClasses)
       THEN Raise(om, Err("AssertionError", "", <<>>))
       ELSE
       Bind(<<"X", "_", "h", "a", "s">> \o SubSeq(concept_name, 3, Len(concept_name)), LAMBDA main_role_name :
           Bind(Item(concept_data, s_X_associatedWithClasses), LAMBDA main_role_domain_list :
          IF ~IsList(main_role_domain_list)
             \/ \E i \in 1..Len(main_role_domain_list.items) :
                   ~(IsClass(main_role_domain_list.items[i])
                     \/ main_role_domain_list.items[i].t \in {"Or", "And", "OneOf", "restr"})
          THEN Raise(om, Err("TypeError", "Unexpected type. Got: {}. Expected: {}", <<>>))
          ELSE
          Bind(    make_object_property_from_dict(om, YDict(<<KV(main_role_name, YDict(<<
                        KV(s_Domain, main_role_domain_list),
                        KV(s_Range, YList(<<relation_concept>>)),
                        KV(s_content_is_parsed, YBool(TRUE))>>))>>)), LAMBDA r :
             IF IsErr(r.err) THEN r
             ELSE
             Bind(r.ret, LAMBDA main_role :
                 Bind(  [r.om EXCEPT
                           !.world[main_role.name].is_a = Append(@, om.RelationConcept_generic_main_role),
                           !.relation_concept_main_roles = Append(@, main_role)], LAMBDA om1 :
                 Bind(DictGet(concept_data, s_X_associatedRoles), LAMBDA further_roles_list :
                IF IsNone(further_roles_list) THEN Ret(om1, None)
                ELSE \* the loop iterates the container itself
                     Raise(om1, Err("TypeError", "'OntoContainer' object is not iterable", <<>>)))))))))

\* _handle_relation_concept_magic(name, new_concept, pid)
_handle_relation_concept_magic(om, name, new_concept, pid) ==
    IF name = s_X_RelationConcept
    THEN IF ~IsNone(om.RelationConcept) THEN Raise(om, Err("AssertionError", "", <<>>))
         ELSE IF ~IsNone(om.RelationConcept_generic_main_role)
         THEN Raise([om EXCEPT !.RelationConcept = new_concept], Err("AssertionError", "", <<>>))
         ELSE Bind([om EXCEPT !.RelationConcept = new_concept], LAMBDA om1 :
                  Bind(make_object_property_from_dict(om1,
                          YDict(<<KV(s_generic_RC_main_role, YDict(<<
                              KV(s_Domain, YStr(s_owl_Thing)), KV(s_Range, YStr(s_owl_Thing))>>))>>)), LAMBDA r :
                 IF IsErr(r.err) THEN r
                 ELSE Ret([r.om EXCEPT !.RelationConcept_generic_main_role = r.ret], None)))
    ELSE IF ~IsNone(om.RelationConcept) /\ issubclass(om.world, new_concept, om.RelationConcept)
    THEN IF ~StartsWith(name, <<"X", "_">>)
         THEN Raise(om, Err("ValueError", "Names of subclasses of X_RelationConcept are expected to start with X_.", <<>>))
         ELSE _create_rc_roles(om, new_concept, name, pid)
    ELSE Ret(om, None)

\* _handle_proxy_individuals(new_class, processed_inner_dict)
_handle_proxy_individuals(om, new_class, processed_inner_dict) ==
    Bind(s_create_proxy_individual, LAMBDA flag_key :
        Bind(om.world[new_class.name].is_a[1], LAMBDA first_parent_class :
        Bind(DictGet(processed_inner_dict, flag_key), LAMBDA given :
        Bind(<<first_parent_class.name, flag_key>>, LAMBDA parent_key :
        Bind(           IF parent_key \in DOMAIN om.custom_attribute_store
                        THEN om.custom_attribute_store[parent_key] ELSE <<>>, LAMBDA parent_value :
        \* str(flag_value)
        Bind(         IF IsNone(given) THEN parent_value
                      ELSE IF given.t = "bool" THEN s_True
                      ELSE IF IsStr(given) THEN given.s
                      ELSE <<>>, LAMBDA flag_value :
       IF given.t = "bool" /\ ~given.b THEN Ret(om, None)
       ELSE IF IsNone(given) /\ parent_value # s_recursive THEN Ret(om, None)
       ELSE IF flag_value \notin {s_True, s_recursive}
       THEN Raise(om, Err("ValueError", "For the flag {} only the following values are allowed", <<flag_key>>))
       ELSE Ret([om EXCEPT
                   !.custom_attribute_store = Put(@, <<new_class.name, flag_key>>, flag_value),
                   !.world = owl_new_individual(@, <<"i">> \o new_class.name, new_class)],
                None)))))))

\* make_class_from_dict(data_dict)
make_class_from_dict(om, data_dict) ==
    IF ~IsDict(data_dict) \/ Len(data_dict.pairs) # 1
    THEN Raise(om, Err("AssertionError", "", <<>>))
    ELSE IF ~IsDict(data_dict.pairs[1].val)
    THEN Raise(om, Err("TypeError", "Unexpected type. Got: {}. Expected: {}", <<>>))
    ELSE
    Bind(data_dict.pairs[1].key, LAMBDA class_name :
        Bind(process_tree(om, data_dict.pairs[1].val, FALSE), LAMBDA pt :
       IF IsErr(pt.err) THEN Raise(om, pt.err)
       ELSE
       Bind(pt.ret, LAMBDA processed_inner_dict :
           Bind(                IF HasKey(processed_inner_dict, s_SubClassOf)
                                THEN Item(processed_inner_dict, s_SubClassOf)
                                ELSE YList(<<Thing>>), LAMBDA parent_class_list :
          IF ~IsList(parent_class_list)
             \/ \E i \in 1..Len(parent_class_list.items) : ~IsClass(parent_class_list.items[i])
          THEN Raise(om, Err("TypeError", "Unexpected type. Got: {}. Expected: {}", <<>>))
          ELSE IF Len(parent_class_list.items) < 1
          THEN Raise(om, Err("AssertionError", "", <<>>))
          ELSE
          Bind(Ent("Class", class_name), LAMBDA new_class :
              Bind(DictGet(processed_inner_dict, s_annotations), LAMBDA annotations :
              Bind(DictGet(processed_inner_dict, s_labels), LAMBDA labels :
              Bind(DictGet(processed_inner_dict, s_EquivalentTo), LAMBDA equivalent_to :
              Bind(  [om EXCEPT
                        !.world = owl_new_class(@, class_name, parent_class_list.items),
                        !.name_mapping = Put(@, class_name, new_class),
                        !.concepts = Append(@, new_class)], LAMBDA om1 :
              Bind(  [om1 EXCEPT
                        !.world[class_name].comment =
                            IF IsNone(annotations) THEN @ ELSE ensure_list(annotations).items,
                        !.world[class_name].label =
                            IF IsNone(labels) THEN @ ELSE ensure_list(labels).items], LAMBDA om2 :
              Bind(IF IsNone(equivalent_to) THEN Val(YList(<<>>)) ELSE DataOf(equivalent_to), LAMBDA eq :
             IF IsErr(eq.err) THEN Raise(om2, eq.err)
             ELSE
             Bind(      [om2 EXCEPT !.world[class_name].equivalent_to =
                                        @ \o ensure_list(eq.ret).items], LAMBDA om3 :
                 Bind(_handle_relation_concept_magic(om3, class_name, new_class, processed_inner_dict), LAMBDA m :
                IF IsErr(m.err) THEN m
                ELSE Bind(_handle_proxy_individuals(m.om, new_class, processed_inner_dict), LAMBDA p :
                        IF IsErr(p.err) THEN p ELSE Ret(p.om, new_class)))))))))))))))

\* ------------------------------------------------- relation concept facts
RECURSIVE SumOf(_, _)
SumOf(f, keys) ==
    IF keys = {} THEN 0
    ELSE Bind(CHOOSE y \in keys : TRUE, LAMBDA x :    f[x] + SumOf(f, keys \ {x}))

\* _create_new_relation_concept numbering the relations of all types with one
\* counter
_create_new_relation_concept_shared(om, rc_type) ==
    Bind(SumOf(om.auto_generated_name_numbers, DOMAIN om.auto_generated_name_numbers), LAMBDA n :
        Bind(  IF rc_type \in DOMAIN om.auto_generated_name_numbers
               THEN om.auto_generated_name_numbers[rc_type] ELSE 0, LAMBDA own :
        Bind([om EXCEPT !.auto_generated_name_numbers = Put(@, rc_type, own + 1)], LAMBDA om1 :
       IF ~IsEnt(rc_type) \/ rc_type.kind = "PyType"
       THEN Raise(om1, Err("AttributeError", "object has no attribute 'name'", <<>>))
       ELSE Bind(<<"i">> \o rc_type.name \o <<"_">> \o IntToStr(n), LAMBDA relation_name :
               _create_individual(om1, relation_name, YList(<<rc_type>>))))))

\* _create_new_relation_concept(rc_type)
_create_new_relation_concept(om, rc_type) ==
    Bind(    IF rc_type \in DOMAIN om.auto_generated_name_numbers
             THEN om.auto_generated_name_numbers[rc_type] ELSE 0, LAMBDA n :
        Bind([om EXCEPT !.auto_generated_name_numbers = Put(@, rc_type, n + 1)], LAMBDA om1 :
       IF ~IsEnt(rc_type) \/ rc_type.kind = "PyType"
       THEN Raise(om1, Err("AttributeError", "object has no attribute 'name'", <<>>))
       ELSE Bind(<<"i">> \o rc_type.name \o <<"_">> \o IntToStr(n), LAMBDA relation_name :
               _create_individual(om1, relation_name, YList(<<rc_type>>)))))

\* the inner loop of process_relation_concept_facts: one role value of rc_indiv
rc_set_value(om, rc_indiv, prop, value) ==
    IF ~(value.t \in {"int", "str"} \/ IsThing(value))
    THEN Raise(om, Err("AssertionError", "", <<>>))
    ELSE Bind(    IF is_functional_for(om.world, prop)
                  THEN owl_setattr(om, rc_indiv, prop, value)
                  ELSE owl_extend(om, rc_indiv, prop, <<value>>), LAMBDA r :
            IF r.err.type = "AttributeError"
            THEN _handle_data_property_error(r.om, prop, value, r.err)
            ELSE r)

RECURSIVE rc_values_from(_, _, _, _)
rc_values_from(om, rc_indiv, inner_dict, i) ==
    IF i > Len(inner_dict.epairs) THEN Ret(om, None)
    ELSE Bind(rc_set_value(om, rc_indiv, inner_dict.epairs[i].ekey, inner_dict.epairs[i].val), LAMBDA r :
            IF IsErr(r.err) THEN r ELSE rc_values_from(r.om, rc_indiv, inner_dict, i + 1))

\* the body of the loop with the role values set before the new individual
\* is linked to the subject
rc_new_relation_values_first(om, indiv, rc_prop, relation_concept, inner_dict) ==
    Bind(_create_new_relation_concept(om, relation_concept), LAMBDA c :
       IF IsErr(c.err) THEN c
       ELSE Bind(c.ret, LAMBDA rc_indiv :
                Bind(rc_values_from(c.om, rc_indiv, inner_dict, 1), LAMBDA a :
               IF IsErr(a.err) THEN a
               ELSE IF is_functional_for(a.om.world, rc_prop)
               THEN Raise(a.om, Err("AttributeError", "'NoneType' object has no attribute 'append'", <<>>))
               ELSE owl_extend(a.om, indiv, rc_prop, <<rc_indiv>>))))

\* the body of the loop over inner_dict_list: one new relation individual
rc_new_relation(om, indiv, rc_prop, relation_concept, inner_dict) ==
    Bind(_create_new_relation_concept(om, relation_concept), LAMBDA c :
       IF IsErr(c.err) THEN c
       ELSE Bind(c.ret, LAMBDA rc_indiv :
                \* getattr(indiv, rc_prop.name).append(rc_indiv)
                Bind(IF is_functional_for(c.om.world, rc_prop)
                     THEN Raise(c.om, Err("AttributeError", "'NoneType' object has no attribute 'append'", <<>>))
                     ELSE owl_extend(c.om, indiv, rc_prop, <<rc_indiv>>), LAMBDA a :
               IF IsErr(a.err) THEN a ELSE rc_values_from(a.om, rc_indiv, inner_dict, 1))))

RECURSIVE rc_relations_from(_, _, _, _, _, _)
rc_relations_from(om, indiv, rc_prop, relation_concept, inner_dict_list, i) ==
    IF i > Len(inner_dict_list) THEN Ret(om, None)
    ELSE Bind(rc_new_relation(om, indiv, rc_prop, relation_concept, inner_dict_list[i]), LAMBDA r :
            IF IsErr(r.err) THEN r
            ELSE rc_relations_from(r.om, indiv, rc_prop, relation_concept, inner_dict_list, i + 1))

\* check_type(inner_dict_list, List[Dict[PropertyClass, Union[yaml_Atom, Thing]]])
IsRcDictList(l) ==
    /\ IsList(l)
    /\ \A i \in 1..Len(l.items) :
          /\ l.items[i].t = "edict"
          /\ \A j \in 1..Len(l.items[i].epairs) :
                /\ IsProperty(l.items[i].epairs[j].ekey)
                /\ \/ l.items[i].epairs[j].val.t \in {"int", "str"}
                   \/ IsThing(l.items[i].epairs[j].val)

RECURSIVE process_relation_concept_facts_from(_, _, _, _)
\* process_relation_concept_facts(indiv, pid), from the i-th item of pid
process_relation_concept_facts_from(om, indiv, pid, i) ==
    IF i > Len(pid.epairs) THEN Ret(om, None)
    ELSE
    Bind(pid.epairs[i].ekey, LAMBDA rc_prop :
        Bind(pid.epairs[i].val, LAMBDA inner_dict_list :
       IF ~IsProperty(rc_prop)
       THEN Raise(om, Err("TypeError", "Expected PropertyClass but got {}", <<>>))
       ELSE IF Len(om.world[rc_prop.name].range) = 0
       THEN Raise(om, Err("IndexError", "list index out of range", <<>>))
       ELSE IF ~IsRcDictList(inner_dict_list)
       THEN Raise(om, Err("TypeError", "Unexpected type. Got: {}. Expected: {}", <<>>))
       ELSE Bind(    rc_relations_from(om, indiv, rc_prop, om.world[rc_prop.name].range[1],
                                       inner_dict_list.items, 1), LAMBDA r :
               IF IsErr(r.err) THEN r
               ELSE process_relation_concept_facts_from(r.om, indiv, pid, i + 1))))

\* process_tree_with_entity_keys(normal_dict, parse_function) with the parse
\* function registered as __rc_facts
process_tree_with_entity_keys(om, normal_dict) ==
    IF ~IsDict(normal_dict) \/ Len(normal_dict.pairs) = 0
    THEN Fail(Err("AssertionError", "", <<>>))
    ELSE Bind(Len(normal_dict.pairs), LAMBDA n :
             Bind([i \in 1..n |-> resolve_name(om, YStr(normal_dict.pairs[i].key), FALSE)], LAMBDA ks :
             Bind([i \in 1..n |-> TreeParseFunction(om, s_rc_facts, normal_dict.pairs[i].val)], LAMBDA vs :
             Bind(Collect([i \in 1..n |-> IF IsErr(ks[i].err) THEN ks[i] ELSE vs[i]]), LAMBDA all :
            IF IsErr(all.err) THEN all
            ELSE Val(EDict([i \in 1..n |-> EKV(ks[i].ret, vs[i].ret)]))))))

RECURSIVE make_relation_concept_facts_from(_, _, _)
\* make_relation_concept_facts_from_dict(data_dict), from the i-th item on
make_relation_concept_facts_from(om, data_dict, i) ==
    IF i > Len(data_dict.pairs) THEN Ret(om, None)
    ELSE Bind(resolve_name(om, YStr(data_dict.pairs[i].key), FALSE), LAMBDA indiv :
             Bind(process_tree_with_entity_keys(om, data_dict.pairs[i].val), LAMBDA pt :
            IF IsErr(indiv.err) THEN Raise(om, indiv.err)
            ELSE IF IsErr(pt.err) THEN Raise(om, pt.err)
            ELSE Bind(process_relation_concept_facts_from(om, indiv.ret, pt.ret, 1), LAMBDA r :
                    IF IsErr(r.err) THEN r
                    ELSE make_relation_concept_facts_from(r.om, data_dict, i + 1))))

make_relation_concept_facts_from_dict(om, data_dict) ==
    IF ~IsDict(data_dict)
    THEN Raise(om, Err("AttributeError", "object has no attribute 'items'", <<>>))
    ELSE make_relation_concept_facts_from(om, data_dict, 1)

\* make_property_facts_from_dict(data_dict)
RECURSIVE make_property_facts_from(_, _, _)
make_property_facts_from(om, data_dict, i) ==
    IF i > Len(data_dict.pairs) THEN Ret(om, None)
    ELSE Bind(resolve_name(om, YStr(data_dict.pairs[i].key), FALSE), LAMBDA property_ :
             Bind(data_dict.pairs[i].val, LAMBDA inner_dict :
             Bind( IF IsDict(inner_dict) THEN process_tree(om, inner_dict, FALSE)
                   ELSE Fail(Err("AttributeError", "object has no attribute 'items'", <<>>)), LAMBDA pt :
            IF IsErr(property_.err) THEN Raise(om, property_.err)
            ELSE IF IsErr(pt.err) THEN Raise(om, pt.err)
            ELSE IF ~IsProperty(property_.ret)
            THEN \* prop.is_functional_for / prop.name on something that is no property
                 IF IsNone(DictGet(pt.ret, s_Facts)) THEN make_property_facts_from(om, data_dict, i + 1)
                 ELSE Raise(om, Err("AttributeError", "object has no attribute 'is_functional_for'", <<>>))
            ELSE Bind(process_property_facts(om, property_.ret, pt.ret), LAMBDA r :
                    IF IsErr(r.err) THEN r ELSE make_property_facts_from(r.om, data_dict, i + 1)))))

make_property_facts_from_dict(om, data_dict) ==
    IF ~IsDict(data_dict)
    THEN Raise(om, Err("AttributeError", "object has no attribute 'items'", <<>>))
    ELSE make_property_facts_from(om, data_dict, 1)

\* add_swrl_rule_from_dict(data_dict)
add_swrl_rule_from_dict(om, data_dict) ==
    IF ~HasKey(data_dict, s_name) THEN Raise(om, KeyNotFound(s_name, data_dict))
    ELSE IF ~HasKey(data_dict, s_src) THEN Raise(om, KeyNotFound(s_src, data_dict))
    ELSE Bind(Item(data_dict, s_name), LAMBDA rule_name :
             \* owl2.Imp() followed by set_as_rule(rule_src): a new rule object
             Bind([t |-> "imp", src |-> Item(data_dict, s_src), id |-> Len(om.rules) + 1], LAMBDA new_rule :
            Ret([om EXCEPT !.rules = Append(@, new_rule),
                           !.name_mapping = Put(@, rule_name.s, new_rule)], None)))

\* ------------------------------------------- PropertyRestrictionParser
\* the role itself where owl2.Inverse(role) is created
Inverse_unwrapped(role) == role

\* owl2.Inverse(role)
Inverse(role) == [t |-> "inv", prop |-> role]

\* getattr(role_object, restriction_type_name)(arg)
Restriction(role_object, restriction_type_name, arg) ==
    [t |-> "restr", prop |-> role_object, value |-> arg, rtype |-> restriction_type_name]

\* restriction_types of the manager: {"some": Lit.some, "value": Lit.value}
restriction_types == (s_some :> s_some) @@ (s_value :> s_value)
\* value as the only restriction type that takes a value
valid_restriction_types_value_only == {s_value}

\* self.valid_restriction_types = (Lit.value, Lit.some)
valid_restriction_types == {s_value, s_some}

\* _unpack_dict with a dict of several keys taken by its first key
_unpack_dict_first_key(data_dict) ==
    IF ~IsDict(data_dict) THEN Err("AttributeError", "object has no attribute 'items'", <<>>)
    ELSE IF Len(data_dict.pairs) < 1 THEN Err("AssertionError", "", <<>>)
    ELSE IF data_dict.pairs[1].val.t \notin {"dict", "str", "int"}
    THEN Err("TypeError", "Unexpected type. Got: {}. Expected: {}", <<>>)
    ELSE NoErr

\* _unpack_dict(data_dict): NoErr when data_dict has one key and a value that
\* is a dict, a string or a number
_unpack_dict(data_dict) ==
    IF ~IsDict(data_dict) THEN Err("AttributeError", "object has no attribute 'items'", <<>>)
    ELSE IF Len(data_dict.pairs) # 1 THEN Err("AssertionError", "", <<>>)
    ELSE IF data_dict.pairs[1].val.t \notin {"dict", "str", "int"}
    THEN Err("TypeError", "Unexpected type. Got: {}. Expected: {}", <<>>)
    ELSE NoErr

\* a key that is no role name being skipped
unknown_role_key_skipped(om, key) == Ret(om, None)

\* the else branch of parse_dict_to_lists: the key is neither a role name nor Inverse
unknown_role_key(om, key) ==
    Raise(om, Err("ValueError", "Unknown key: {}. Expected role name.", <<key>>))

RECURSIVE parse_dict_to_lists(_, _, _)
RECURSIVE _process_role_value_dict(_, _, _)

\* parse_dict_to_lists(data_dict, init): fills objects and restriction_type_names
parse_dict_to_lists(om, data_dict, init) ==
    Bind(      IF init THEN [om EXCEPT !.objects = <<>>, !.restriction_type_names = <<>>]
               ELSE om, LAMBDA om0 :
        Bind(_unpack_dict(data_dict), LAMBDA e :
       IF IsErr(e) THEN Raise(om0, e)
       ELSE
       Bind(data_dict.pairs[1].key, LAMBDA key :
           Bind(data_dict.pairs[1].val, LAMBDA value :
           Bind(IF key \in DOMAIN om0.roles
                THEN _process_role_value_dict(
                         [om0 EXCEPT !.objects = Append(@, om0.roles[key])], key, value)
                ELSE IF key = s_Inverse
                THEN Bind(_unpack_dict(value), LAMBDA e2 :
                        IF IsErr(e2) THEN Raise(om0, e2)
                        ELSE Bind(value.pairs[1].key, LAMBDA inner_key :
                                 Bind(value.pairs[1].val, LAMBDA inner_value :
                                IF inner_key \notin DOMAIN om0.roles
                                THEN Raise(om0, Err("ValueError", "A role name is expected after Inverse:. Instead got {}.", <<inner_key>>))
                                ELSE Bind(      [om0 EXCEPT !.objects =
                                                    Append(@, Inverse(om0.roles[inner_key]))], LAMBDA om1 :
                                        IF ~IsDict(inner_value)
                                        THEN Raise(om1, Err("AssertionError", "", <<>>))
                                        ELSE _process_role_value_dict(om1, key, inner_value)))))
                ELSE unknown_role_key(om0, key), LAMBDA r :
          IF IsErr(r.err) THEN r
          ELSE IF Len(r.om.objects) # Len(r.om.restriction_type_names) + 1
          THEN Raise(r.om, Err("AssertionError", "", <<>>))
          ELSE r)))))

\* _process_role_value_dict(role_name, value_dict)
_process_role_value_dict(om, role_name, value_dict) ==
    IF ~IsDict(value_dict) THEN Raise(om, Err("AssertionError", "", <<>>))
    ELSE
    Bind(_unpack_dict(value_dict), LAMBDA e :
       IF IsErr(e) THEN Raise(om, e)
       ELSE
       Bind(value_dict.pairs[1].key, LAMBDA inner_key :
           Bind(value_dict.pairs[1].val, LAMBDA inner_value :
          IF inner_key \notin DOMAIN restriction_types
          THEN Raise(om, Err("ValueError", "Malformed restriction: role name {} must be followed by restriction type like some. Instead got {}", <<role_name, inner_key>>))
          ELSE
          Bind(restriction_types[inner_key], LAMBDA restriction_type :
              Bind([om EXCEPT !.restriction_type_names = Append(@, restriction_type)], LAMBDA om1 :
             IF restriction_type \notin valid_restriction_types
             THEN Raise(om1, Err("ValueError", "Unknown restriction_type: {}", <<restriction_type>>))
             ELSE IF IsStr(inner_value)
             THEN Bind(resolve_name(om1, inner_value, TRUE), LAMBDA final_value :
                     IF IsErr(final_value.err) THEN Raise(om1, final_value.err)
                     ELSE Ret([om1 EXCEPT !.objects = Append(@, final_value.ret)], None))
             ELSE IF IsNum(inner_value)
             THEN Ret([om1 EXCEPT !.objects = Append(@, inner_value)], None)
             ELSE IF restriction_type # s_some
             THEN Raise(om1, Err("AssertionError", "", <<>>))
             ELSE parse_dict_to_lists(om1, inner_value, FALSE))))))

\* the lists left in the order in which they were filled
Reverse_missing(s) == s

\* reversed(seq)
Reverse(s) == [i \in 1..Len(s) |-> s[Len(s) + 1 - i]]

RECURSIVE FoldRestrictions(_, _, _, _)
\* the loop of process_restriction_body over zip(restriction_type_names, objects)
FoldRestrictions(restriction_type_names, objects, i, arg) ==
    IF i > Len(restriction_type_names) \/ i > Len(objects) THEN arg
    ELSE FoldRestrictions(restriction_type_names, objects, i + 1,
                          Restriction(objects[i], restriction_type_names[i], arg))

\* process_restriction_body with lists of two or more entries left as the
\* call before left them
process_restriction_body_resumed(om, data_dict) ==
    Bind(parse_dict_to_lists(om, data_dict, Cardinality(DOMAIN om.objects) < 2), LAMBDA p :
       IF IsErr(p.err) THEN p
       ELSE
       Bind(p.om.objects[Len(p.om.objects)], LAMBDA final_value :
           Bind(Reverse(SubSeq(p.om.objects, 1, Len(p.om.objects) - 1)), LAMBDA objects :
           Bind(Reverse(p.om.restriction_type_names), LAMBDA restriction_type_names :
           Bind(  [p.om EXCEPT !.objects = objects,
                               !.restriction_type_names = restriction_type_names], LAMBDA om1 :
          IF Len(objects) # Len(restriction_type_names)
          THEN Raise(om1, Err("AssertionError", "", <<>>))
          ELSE Ret(om1, FoldRestrictions(restriction_type_names, objects, 1, final_value)))))))

\* process_restriction_body(data_dict)
process_restriction_body(om, data_dict) ==
    Bind(parse_dict_to_lists(om, data_dict, TRUE), LAMBDA p :
       IF IsErr(p.err) THEN p
       ELSE
       Bind(p.om.objects[Len(p.om.objects)], LAMBDA final_value :
           Bind(Reverse(SubSeq(p.om.objects, 1, Len(p.om.objects) - 1)), LAMBDA objects :
           Bind(Reverse(p.om.restriction_type_names), LAMBDA restriction_type_names :
           Bind(  [p.om EXCEPT !.objects = objects,
                               !.restriction_type_names = restriction_type_names], LAMBDA om1 :
          IF Len(objects) # Len(restriction_type_names)
          THEN Raise(om1, Err("AssertionError", "", <<>>))
          ELSE Ret(om1, FoldRestrictions(restriction_type_names, objects, 1, final_value)))))))

\* add_restriction_to_entity with the restriction put in front of the axioms
add_restriction_to_entity_in_front(om, rstrn, indv) ==
    IF rstrn.t # "restr" THEN Raise(om, Err("AssertionError", "", <<>>))
    ELSE IF ~IsEnt(indv) \/ indv.name \notin DOMAIN om.world
    THEN Raise(om, Err("AttributeError", "object has no attribute 'is_a'", <<>>))
    ELSE Ret([om EXCEPT !.world[indv.name].is_a = <<rstrn>> \o @], None)

\* add_restriction_to_entity(rstrn, indv)
add_restriction_to_entity(om, rstrn, indv) ==
    IF rstrn.t # "restr" THEN Raise(om, Err("AssertionError", "", <<>>))
    ELSE IF ~IsEnt(indv) \/ indv.name \notin DOMAIN om.world
    THEN Raise(om, Err("AttributeError", "object has no attribute 'is_a'", <<>>))
    ELSE Ret([om EXCEPT !.world[indv.name].is_a = Append(@, rstrn)], None)

\* add_restriction_from_dict(data_dict)
add_restriction_from_dict(om, data_dict) ==
    IF ~HasKey(data_dict, s_Subject) THEN Raise(om, KeyNotFound(s_Subject, data_dict))
    ELSE
    Bind(Item(data_dict, s_Subject), LAMBDA subject_name :
       IF ~IsStr(subject_name)
       THEN Raise(om, Err("TypeError", "Unexpected type. Got: {}. Expected: {}", <<>>))
       ELSE
       Bind(resolve_name(om, subject_name, FALSE), LAMBDA subject :
          IF IsErr(subject.err) THEN Raise(om, subject.err)
          ELSE IF ~HasKey(data_dict, s_Body) THEN Raise(om, KeyNotFound(s_Body, data_dict))
          ELSE IF ~IsDict(Item(data_dict, s_Body))
          THEN Raise(om, Err("TypeError", "Unexpected type. Got: {}. Expected: {}", <<>>))
          ELSE Bind(process_restriction_body(om, Item(data_dict, s_Body)), LAMBDA r :
                  IF IsErr(r.err) THEN r
                  ELSE add_restriction_to_entity(r.om, r.ret, subject.ret))))

\* -------------------------------------------- the other top-level handlers
\* make_multiple_individuals_from_dict(data_dict); data_dict.pop("names")
\* changes the statement's dict itself
RECURSIVE make_individuals_from(_, _, _, _)
make_individuals_from(om, names, rest, i) ==
    IF i > Len(names) THEN Ret(om, None)
    ELSE IF ~IsStr(names[i])
    THEN Raise(om, Err("TypeError", "Unexpected type. Got: {}. Expected: {}", <<>>))
    ELSE Bind(make_individual_from_dict(om, YDict(<<KV(names[i].s, rest)>>)), LAMBDA r :
            IF IsErr(r.err) THEN r ELSE make_individuals_from(r.om, names, rest, i + 1))

make_multiple_individuals_from_dict(om, data_dict) ==
    IF ~IsDict(data_dict)
    THEN Raise(om, Err("AttributeError", "object has no attribute 'pop'", <<>>))
    ELSE IF ~HasKey(data_dict, s_names)
    THEN Raise(om, Err("KeyError", "Statement owl_multiple_individuals must have attribute names. {}", <<>>))
    ELSE Bind(Item(data_dict, s_names), LAMBDA names :
             Bind(YDict(SelectSeq(data_dict.pairs, LAMBDA p : p.key # s_names)), LAMBDA rest :
            IF ~IsList(names)
            THEN Raise(om, Err("TypeError", "object is not iterable", <<>>))
            ELSE make_individuals_from(om, names.items, rest, 1)))

RECURSIVE make_classes_from(_, _, _)
make_classes_from(om, dict_list, i) ==
    IF i > Len(dict_list) THEN Ret(om, None)
    ELSE Bind(make_class_from_dict(om, dict_list[i]), LAMBDA r :
            IF IsErr(r.err) THEN r ELSE make_classes_from(r.om, dict_list, i + 1))

\* make_multiple_classes_from_list(dict_list)
make_multiple_classes_from_list(om, dict_list) ==
    IF ~IsList(dict_list) \/ \E i \in 1..Len(dict_list.items) : ~IsDict(dict_list.items[i])
    THEN Raise(om, Err("TypeError", "Unexpected type. Got: {}. Expected: {}", <<>>))
    ELSE make_classes_from(om, dict_list.items, 1)

\* self.onto.individuals(): the individuals the library holds
onto_individuals(world) == {Ent("Individual", x) : x \in {y \in DOMAIN world : world[y].kind = "Individual"}}

\* different_individuals(data_list)
different_individuals(om, data_list) ==
    IF ~IsList(data_list) \/ \E i \in 1..Len(data_list.items) : ~IsStr(data_list.items[i])
    THEN Raise(om, Err("TypeError", "Unexpected type. Got: {}. Expected: {}", <<>>))
    ELSE Bind(Len(data_list.items), LAMBDA n :
             Bind({i \in 1..n : data_list.items[i].s = s_all}, LAMBDA stop :
             Bind(IF stop = {} THEN n ELSE (CHOOSE i \in stop : \A j \in stop : i <= j) - 1, LAMBDA upto :
             Bind( [i \in 1..upto |->
                      Bind(resolve_name(om, data_list.items[i], FALSE), LAMBDA indiv :
                         IF IsErr(indiv.err) THEN Fail(indiv.err)
                         ELSE IF ~IsThing(indiv.ret) THEN Fail(Err("AssertionError", "", <<>>))
                         ELSE Val(indiv.ret))], LAMBDA rs :
             Bind(Collect(rs), LAMBDA all :
            IF IsErr(all.err) THEN Raise(om, all.err)
            ELSE Bind(              IF stop = {} THEN {all.ret.items[i] : i \in 1..upto}
                                    ELSE onto_individuals(om.world), LAMBDA individuals :
                    Ret([om EXCEPT !.onto.all_different = Append(@, individuals)], None)))))))

\* process_global_annotation(annotation_str)
process_global_annotation(om, annotation_str) ==
    IF ~IsStr(annotation_str)
    THEN Raise(om, Err("TypeError", "Unexpected type. Got: {}. Expected: {}", <<>>))
    ELSE Ret([om EXCEPT !.onto.metadata_comment = Append(@, annotation_str.s)], None)

\* The ontologies that world.get_ontology(location).load() can load, by
\* location: the one ontology of the environment, with one class and one
\* entity that is no class.
s_ext_iri == <<"h", ":", "/", "e", "#">>
ExternalOntologies ==
    (s_ext_iri :> [entities |-> {<<"E">>, <<"r">>}, base_iri |-> s_ext_iri, classes |-> <<<<"E">>>>])

\* imported_ontologies[key] = onto
SetImport(imports, key, onto) ==
    IF \E i \in 1..Len(imports) : imports[i].ns = key
    THEN [i \in 1..Len(imports) |-> IF imports[i].ns = key THEN [onto |-> onto, ns |-> key] ELSE imports[i]]
    ELSE Append(imports, [onto |-> onto, ns |-> key])

RECURSIVE RegisterClasses(_, _, _, _)
\* for klass in imported_onto.classes(): name_mapping[f"{ns}{klass.name}"] = klass
RegisterClasses(name_mapping, ns, classes, i) ==
    IF i > Len(classes) THEN name_mapping
    ELSE RegisterClasses(Put(name_mapping, ns \o classes[i], Ent("Imported", classes[i])),
                         ns, classes, i + 1)

\* process_import(data_dict)
process_import(om, data_dict) ==
    IF ~IsDict(data_dict)
    THEN Raise(om, Err("TypeError", "string indices must be integers", <<>>))
    ELSE IF ~HasKey(data_dict, s_iri)
    THEN Raise(om, Err("KeyError", "Could not find IRI for import. Dict: {}", <<>>))
    ELSE
    Bind(Item(data_dict, s_iri), LAMBDA imported_iri :
        Bind(DictGet(data_dict, s_localpath), LAMBDA localpath :
        Bind(       IF IsStr(localpath) /\ Len(localpath.s) > 0 THEN localpath.s ELSE imported_iri.s, LAMBDA location :
        Bind(DictGet(data_dict, s_ns), LAMBDA given_ns :
        Bind( IF ~IsStr(given_ns) \/ Len(given_ns.s) = 0 THEN <<>>
              ELSE IF given_ns.s[Len(given_ns.s)] = ":" THEN given_ns.s
              ELSE given_ns.s \o <<":">>, LAMBDA ns :
       IF ~IsStr(imported_iri) \/ location \notin DOMAIN ExternalOntologies
       THEN Raise(om, Err("OwlReadyOntologyParsingError", "Cannot download {}", <<location>>))
       ELSE
       Bind(ExternalOntologies[location], LAMBDA imported_onto :
           Bind(SetImport(om.imported_ontologies, imported_iri.s, imported_onto), LAMBDA imports1 :
           Bind(IF ns # <<>> THEN SetImport(imports1, ns, imported_onto) ELSE imports1, LAMBDA imports2 :
          Ret([om EXCEPT
                 !.imported_ontologies = imports2,
                 !.name_mapping = RegisterClasses(@, ns, imported_onto.classes, 1),
                 !.onto.imported_ontologies = Append(@, imported_onto.base_iri)], None)))))))))

\* ---------------------------------------------------------- load_ontology
excepted_non_function_keys == {s_iri}

\* top_level_parse_functions, as registered in __init__
top_level_parse_functions ==
    {s_import, s_annotation, s_owl_individual, s_owl_multiple_individuals, s_owl_class,
     s_multiple_owl_classes, s_owl_object_property, s_owl_data_property,
     s_owl_inverse_property, s_property_facts, s_relation_concept_facts, s_restriction,
     s_swrl_rule, s_different_individuals}

\* tl_parse_function(inner_dict) for the function registered under key
tl_parse_function(om, key, inner_dict) ==
    CASE key = s_import -> process_import(om, inner_dict)
      [] key = s_annotation -> process_global_annotation(om, inner_dict)
      [] key = s_owl_individual -> make_individual_from_dict(om, inner_dict)
      [] key = s_owl_multiple_individuals -> make_multiple_individuals_from_dict(om, inner_dict)
      [] key = s_owl_class -> make_class_from_dict(om, inner_dict)
      [] key = s_multiple_owl_classes -> make_multiple_classes_from_list(om, inner_dict)
      [] key = s_owl_object_property -> make_object_property_from_dict(om, inner_dict)
      [] key = s_owl_data_property -> make_data_property_from_dict(om, inner_dict)
      [] key = s_owl_inverse_property -> make_inverse_property_from_dict(om, inner_dict)
      [] key = s_property_facts -> make_property_facts_from_dict(om, inner_dict)
      [] key = s_relation_concept_facts -> make_relation_concept_facts_from_dict(om, inner_dict)
      [] key = s_restriction -> add_restriction_from_dict(om, inner_dict)
      [] key = s_swrl_rule -> add_swrl_rule_from_dict(om, inner_dict)
      [] key = s_different_individuals -> different_individuals(om, inner_dict)

\* the note load_ontology appends to the message of an exception of a handler:
\* inner_dict as it is after the call (owl_multiple_individuals pops "names")
InnerDictNote(key, inner_dict) ==
    [by |-> "load_ontology",
     doc |-> IF key = s_owl_multiple_individuals /\ IsDict(inner_dict)
             THEN YDict(SelectSeq(inner_dict.pairs, LAMBDA p : p.key # s_names))
             ELSE inner_dict]

\* the body of the loop with what a failing statement did undone
load_statement_undone(om, top_level_dict) ==
    IF ~IsDict(top_level_dict) \/ Len(top_level_dict.pairs) # 1
    THEN Raise(om, Err("AssertionError", "", <<>>))
    ELSE
    Bind(top_level_dict.pairs[1].key, LAMBDA key :
        Bind(top_level_dict.pairs[1].val, LAMBDA inner_dict :
       IF key \in excepted_non_function_keys THEN Ret(om, None)
       ELSE IF key \notin top_level_parse_functions
       THEN \* raised by _resolve_yaml_key, before the try statement
            Raise(om, KeyNotFound(key, [t |-> "table", which |-> "top_level_parse_functions"]))
       ELSE Bind(tl_parse_function(om, key, inner_dict), LAMBDA r :
               IF IsErr(r.err)
               THEN Raise(om, [r.err EXCEPT !.notes = Append(@, InnerDictNote(key, inner_dict))])
               ELSE r)))

\* the body of the loop of load_ontology for one statement of the document
load_statement(om, top_level_dict) ==
    IF ~IsDict(top_level_dict) \/ Len(top_level_dict.pairs) # 1
    THEN Raise(om, Err("AssertionError", "", <<>>))
    ELSE
    Bind(top_level_dict.pairs[1].key, LAMBDA key :
        Bind(top_level_dict.pairs[1].val, LAMBDA inner_dict :
       IF key \in excepted_non_function_keys THEN Ret(om, None)
       ELSE IF key \notin top_level_parse_functions
       THEN \* raised by _resolve_yaml_key, before the try statement
            Raise(om, KeyNotFound(key, [t |-> "table", which |-> "top_level_parse_functions"]))
       ELSE Bind(tl_parse_function(om, key, inner_dict), LAMBDA r :
               IF IsErr(r.err)
               THEN Raise(r.om, [r.err EXCEPT !.notes = Append(@, InnerDictNote(key, inner_dict))])
               ELSE r)))

RECURSIVE load_from(_, _, _)
\* load_ontology over the statements of raw_data from the i-th on
load_from(om, raw_data, i) ==
    IF i > Len(raw_data) THEN Ret(om, None)
    ELSE Bind(load_statement(om, raw_data[i]), LAMBDA r :
            IF IsErr(r.err) THEN r ELSE load_from(r.om, raw_data, i + 1))

\* ------------------------------------------------------------- the state
VARIABLES
    name_mapping,                       \* self.name_mapping
    roles,                              \* self.roles
    concepts,                           \* self.concepts
    rules,                              \* self.rules
    imported_ontologies,                \* self.imported_ontologies
    RelationConcept,                    \* self._RelationConcept
    RelationConcept_generic_main_role,  \* self._RelationConcept_generic_main_role
    relation_concept_main_roles,        \* self.relation_concept_main_roles
    auto_generated_name_numbers,        \* self.auto_generated_name_numbers
    custom_attribute_store,             \* self.custom_attribute_store
    objects,                            \* property_restriction_parser.objects
    restriction_type_names,             \* property_restriction_parser.restriction_type_names
    world,                              \* the entities of the ontology library
    onto,                               \* self.onto: metadata, imports, AllDifferent axioms
    raw_data,                           \* self.raw_data, as far as load_ontology has read it
    n,                                  \* self.n
    pc,                                 \* where the caller is: "loading", "done", "failed", "called"
    k,                                  \* the number of statements (or calls) handled so far
    stmt,                               \* the statement (or the arguments) handled last
    ret,                                \* what the last call returned
    err                                 \* the exception that left the last call

vars == <<pc, k, name_mapping, roles, concepts, rules, imported_ontologies, RelationConcept,
          RelationConcept_generic_main_role, relation_concept_main_roles,
          auto_generated_name_numbers, custom_attribute_store, objects,
          restriction_type_names, world, onto, raw_data, n, stmt, ret, err>>

\* the manager (with its parser and its library world) as one value
Self ==
    [world |-> world, name_mapping |-> name_mapping, roles |-> roles, concepts |-> concepts, rules |-> rules,
     imported_ontologies |-> imported_ontologies, RelationConcept |-> RelationConcept,
     RelationConcept_generic_main_role |-> RelationConcept_generic_main_role,
     relation_concept_main_roles |-> relation_concept_main_roles,
     auto_generated_name_numbers |-> auto_generated_name_numbers,
     custom_attribute_store |-> custom_attribute_store, objects |-> objects,
     restriction_type_names |-> restriction_type_names, onto |-> onto]

\* the manager is om in the next state
Becomes(om) ==
    /\ name_mapping' = om.name_mapping
    /\ roles' = om.roles
    /\ concepts' = om.concepts
    /\ rules' = om.rules
    /\ imported_ontologies' = om.imported_ontologies
    /\ RelationConcept' = om.RelationConcept
    /\ RelationConcept_generic_main_role' = om.RelationConcept_generic_main_role
    /\ relation_concept_main_roles' = om.relation_concept_main_roles
    /\ auto_generated_name_numbers' = om.auto_generated_name_numbers
    /\ custom_attribute_store' = om.custom_attribute_store
    /\ objects' = om.objects
    /\ restriction_type_names' = om.restriction_type_names
    /\ world' = om.world
    /\ onto' = om.onto

\* the manager is om in this state
Is(om) ==
    /\ name_mapping = om.name_mapping
    /\ roles = om.roles
    /\ concepts = om.concepts
    /\ rules = om.rules
    /\ imported_ontologies = om.imported_ontologies
    /\ RelationConcept = om.RelationConcept
    /\ RelationConcept_generic_main_role = om.RelationConcept_generic_main_role
    /\ relation_concept_main_roles = om.relation_concept_main_roles
    /\ auto_generated_name_numbers = om.auto_generated_name_numbers
    /\ custom_attribute_store = om.custom_attribute_store
    /\ objects = om.objects
    /\ restriction_type_names = om.restriction_type_names
    /\ world = om.world
    /\ onto = om.onto

\* a statement of the document: a dict of one keyword
Stmt(keyword, inner_dict) == YDict(<<KV(keyword, inner_dict)>>)
D1(k1, v1) == YDict(<<KV(k1, v1)>>)
D2(k1, v1, k2, v2) == YDict(<<KV(k1, v1), KV(k2, v2)>>)
L1(x) == YList(<<x>>)

\* the state when __init__ calls load_ontology
StartOfLoad ==
    /\ Is(NewManager)
    /\ raw_data = <<>>
    /\ n = None
    /\ pc = "loading"
    /\ k = 0
    /\ stmt = None
    /\ ret = None
    /\ err = NoErr

\* One round of the loop of load_ontology: the next statement of the document
\* is top_level_dict. An exception leaves the loop and the constructor.
LoadStatement(top_level_dict) ==
    /\ pc = "loading"
    /\ k < MaxStmts
    /\ LET r == load_statement(Self, top_level_dict)
       IN /\ Becomes(r.om)
          /\ ret' = r.ret
          /\ err' = r.err
          /\ pc' = IF IsErr(r.err) THEN "failed" ELSE "loading"
    /\ k' = k + 1
    /\ raw_data' = Append(raw_data, top_level_dict)
    /\ stmt' = top_level_dict
    /\ UNCHANGED n

\* load_ontology setting self.n to the names that __init__ registered
FinishLoad_initial_names ==
    /\ pc = "loading"
    /\ pc' = "done"
    /\ n' = [t |-> "Container", dict |-> InitialNameMapping]
    /\ UNCHANGED <<name_mapping, roles, concepts, rules, imported_ontologies, RelationConcept,
                   RelationConcept_generic_main_role, relation_concept_main_roles,
                   auto_generated_name_numbers, custom_attribute_store, objects,
                   restriction_type_names, world, onto, raw_data, k, stmt, ret, err>>

\* the document has no more statements: load_ontology sets self.n
FinishLoad ==
    /\ pc = "loading"
    /\ pc' = "done"
    /\ n' = [t |-> "Container", dict |-> name_mapping]
    /\ UNCHANGED <<name_mapping, roles, concepts, rules, imported_ontologies, RelationConcept,
                   RelationConcept_generic_main_role, relation_concept_main_roles,
                   auto_generated_name_numbers, custom_attribute_store, objects,
                   restriction_type_names, world, onto, raw_data, k, stmt, ret, err>>

\* ------------------------------------------- the statements of a document
\* the names a document uses
n_A == <<"A">>
n_B == <<"B">>
n_a == <<"a">>
n_p == <<"p">>
n_d == <<"d">>
n_q == <<"q">>
n_b == <<"b">>
n_e == <<"e">>
n_C == <<"C">>
n_r == <<"r">>
n_Foo == <<"F", "o", "o">>
s_foo == <<"f", "o", "o">>
s_quoted_x == <<"'", "x", "'">>

owl_Thing == YStr(s_owl_Thing)

\* owl_class statements: a new class, a subclass of a class declared before,
\* an unregistered keyword in the body, and one nested under SubClassOf
ClassStatements ==
    {Stmt(s_owl_class, D1(n_A, D1(s_SubClassOf, owl_Thing))),
     Stmt(s_owl_class, D1(n_B, D1(s_SubClassOf, L1(YStr(n_A))))),
     Stmt(s_owl_class, D1(n_C, D1(n_Foo, YStr(n_a)))),
     Stmt(s_owl_class, D1(n_C, D1(s_SubClassOf, D1(n_Foo, YStr(n_a)))))}

\* owl_individual statements: an individual a, one named as the class A, and
\* individuals of two types
IndividualStatements ==
    {Stmt(s_owl_individual, D1(n_a, D1(s_types, L1(owl_Thing)))),
     Stmt(s_owl_individual, D1(n_A, D1(s_types, L1(owl_Thing)))),
     Stmt(s_owl_individual, D1(n_b, D1(s_types, YList(<<owl_Thing, YStr(n_A)>>)))),
     Stmt(s_owl_individual, D1(n_a, D1(s_types, YList(<<owl_Thing, owl_Thing>>))))}

\* owl_object_property statements: ranges of classes, of primitives and mixed
ObjectPropertyStatements ==
    {Stmt(s_owl_object_property, D1(n_p, D2(s_Domain, owl_Thing, s_Range, owl_Thing))),
     Stmt(s_owl_object_property, D1(n_r, D2(s_Domain, owl_Thing, s_Range, YStr(s_int)))),
     Stmt(s_owl_object_property, D1(n_a, D2(s_Domain, owl_Thing,
                                            s_Range, YList(<<owl_Thing, YStr(s_int)>>))))}

\* owl_data_property statements: the name p is also used for an object property
DataPropertyStatements ==
    {Stmt(s_owl_data_property, D1(n_d, D2(s_Domain, owl_Thing, s_Range, YStr(s_int)))),
     Stmt(s_owl_data_property, D1(n_p, D2(s_Domain, owl_Thing, s_Range, owl_Thing)))}

InversePropertyStatements ==
    {Stmt(s_owl_inverse_property, D1(n_q, D1(s_Inverse, YStr(n_p))))}

SwrlRuleStatements ==
    {Stmt(s_swrl_rule, D2(s_name, YStr(n_a), s_src, YStr(s_quoted_x)))}

PropertyFactsStatements ==
    {Stmt(s_property_facts, D1(n_p, D1(s_Facts, L1(D1(n_a, YStr(n_a))))))}

RelationConceptFactsStatements ==
    {Stmt(s_relation_concept_facts, D1(n_a, D1(n_p, L1(D1(n_p, YStr(n_a))))))}

RestrictionStatements ==
    {Stmt(s_restriction, D2(s_Subject, YStr(n_a), s_Body, D1(n_p, D1(s_value, YStr(n_a)))))}

ImportStatements ==
    {Stmt(s_import, D2(s_iri, YStr(s_ext_iri), s_ns, YStr(n_e)))}

AnnotationStatements ==
    {Stmt(s_annotation, YStr(s_quoted_x))}

\* b is new, a may have been declared before; individuals of two types
MultipleIndividualsStatements ==
    {Stmt(s_owl_multiple_individuals,
          D2(s_names, YList(<<YStr(n_b), YStr(n_a)>>), s_types, L1(owl_Thing))),
     Stmt(s_owl_multiple_individuals,
          D2(s_names, YList(<<YStr(n_e), YStr(n_b)>>), s_types, YList(<<owl_Thing, owl_Thing>>)))}

MultipleClassesStatements ==
    {Stmt(s_multiple_owl_classes,
          YList(<<D1(n_B, D1(s_SubClassOf, owl_Thing)), D1(n_A, D1(s_SubClassOf, YStr(n_B)))>>))}

DifferentIndividualsStatements ==
    {Stmt(s_different_individuals, YList(<<YStr(n_a), YStr(n_b)>>))}

\* statements whose keyword is not registered, and the iri statement
OtherStatements ==
    {Stmt(s_foo, D1(n_A, D1(s_SubClassOf, owl_Thing))),
     Stmt(s_iri, YStr(s_ext_iri))}

\* -------------------------------------------------------------- actions
owl_class == \E s \in ClassStatements : LoadStatement(s)
owl_individual == \E s \in IndividualStatements : LoadStatement(s)
owl_object_property == \E s \in ObjectPropertyStatements : LoadStatement(s)
owl_data_property == \E s \in DataPropertyStatements : LoadStatement(s)
owl_inverse_property == \E s \in InversePropertyStatements : LoadStatement(s)
swrl_rule == \E s \in SwrlRuleStatements : LoadStatement(s)
property_facts == \E s \in PropertyFactsStatements : LoadStatement(s)
relation_concept_facts == \E s \in RelationConceptFactsStatements : LoadStatement(s)
restriction == \E s \in RestrictionStatements : LoadStatement(s)
import == \E s \in ImportStatements : LoadStatement(s)
annotation == \E s \in AnnotationStatements : LoadStatement(s)
owl_multiple_individuals == \E s \in MultipleIndividualsStatements : LoadStatement(s)
multiple_owl_classes == \E s \in MultipleClassesStatements : LoadStatement(s)
different_individuals_ == \E s \in DifferentIndividualsStatements : LoadStatement(s)
other_key == \E s \in OtherStatements : LoadStatement(s)

Init == StartOfLoad

Next ==
    \/ owl_class
    \/ owl_individual
    \/ owl_object_property
    \/ owl_data_property
    \/ owl_inverse_property
    \/ swrl_rule
    \/ property_facts
    \/ relation_concept_facts
    \/ restriction
    \/ import
    \/ annotation
    \/ owl_multiple_individuals
    \/ multiple_owl_classes
    \/ different_individuals_
    \/ other_key
    \/ FinishLoad

Spec == Init /\ [][Next]_vars

\* ------------------------------------------- properties of a document load
\* the keyword and the body of the statement handled last
LastKey == stmt.pairs[1].key
LastBody == stmt.pairs[1].val

\* the keywords that declare a name, and the name a statement declares
DeclarationKeywords ==
    {s_owl_individual, s_owl_class, s_owl_object_property, s_owl_data_property,
     s_owl_inverse_property, s_swrl_rule}

DeclaredName(s) ==
    IF s.pairs[1].key = s_swrl_rule THEN Item(s.pairs[1].val, s_name).s
    ELSE s.pairs[1].val.pairs[1].key

IsNameCollision(e, name) ==
    /\ e.type = "ValueError"
    /\ e.fmt = "This concept name was declared more than once: {}"
    /\ e.args = <<name>>

\* C1: a statement that declares a name (individual, class, object, data or
\* inverse property, SWRL rule) which the namespace already holds fails with
\* the name-collision error, and the name stays bound to the entity it had.
C1_RedeclarationFails ==
    [][(/\ k' = k + 1
        /\ stmt'.pairs[1].key \in DeclarationKeywords
        /\ DeclaredName(stmt') \in DOMAIN name_mapping)
       => /\ IsNameCollision(err', DeclaredName(stmt'))
          /\ name_mapping'[DeclaredName(stmt')] = name_mapping[DeclaredName(stmt')]]_vars

\* the raw Range of a property declaration, as a list of tokens
RangeOf(s) == ensure_list(DictGet(s.pairs[1].val.pairs[1].val, s_Range)).items
IsPrimitiveToken(x) == IsStr(x) /\ x.s \in {s_int, s_float, s_str}
IsClassToken(x) ==
    IsStr(x) /\ x.s \in DOMAIN name_mapping /\ IsClass(name_mapping[x.s])
IsPropertyKind(x) == x \in {"ObjectProperty", "DataProperty"}

\* C6: whatever the keyword of a property declaration, a Range mixing a class
\* and a primitive type fails with a type error, a Range of primitive types
\* only gives a data property, a Range of classes only gives an object
\* property, and the kind of a property never changes afterwards.
C6_RangeDecidesKind ==
    [][/\ (k' = k + 1 /\ stmt'.pairs[1].key \in {s_owl_object_property, s_owl_data_property})
          => LET range == RangeOf(stmt')
                 prims == {i \in 1..Len(range) : IsPrimitiveToken(range[i])}
                 classes == {i \in 1..Len(range) : IsClassToken(range[i])}
             IN /\ (prims # {} /\ classes # {}) => err'.type = "TypeError"
                /\ (prims = 1..Len(range) /\ ~IsErr(err'))
                      => world'[DeclaredName(stmt')].kind = "DataProperty"
                /\ (classes = 1..Len(range) /\ ~IsErr(err'))
                      => world'[DeclaredName(stmt')].kind = "ObjectProperty"
       /\ \A x \in DOMAIN world :
             IsPropertyKind(world[x].kind) => world'[x].kind = world[x].kind]_vars

IsKeyErrorNaming(e, key) == e.type = "KeyError" /\ e.args = <<key>>

\* the statement handled last is an owl_class statement whose body is one key
ClassBodyOfOneKey ==
    /\ LastKey = s_owl_class
    /\ IsLen1DictOfDict(LastBody)
    /\ Len(LastBody.pairs[1].val.pairs) = 1

\* C9: an unregistered keyword fails with KeyError naming it: as the key of a
\* top-level statement, as a key of a statement body, and as a key of a dict
\* nested in the value of a registered keyword.
C9_UnregisteredKeywordIsKeyError ==
    k > 0 =>
      /\ LastKey \notin top_level_parse_functions \cup excepted_non_function_keys
            => IsKeyErrorNaming(err, LastKey)
      /\ ClassBodyOfOneKey =>
            LET item == LastBody.pairs[1].val.pairs[1]
            IN /\ item.key \notin DOMAIN normal_parse_functions
                     => IsKeyErrorNaming(err, item.key)
               /\ (/\ item.key \in DOMAIN normal_parse_functions
                   /\ ~normal_parse_functions[item.key].flat
                   /\ IsDict(item.val) /\ Len(item.val.pairs) = 1
                   /\ item.val.pairs[1].key \notin DOMAIN normal_parse_functions)
                     => IsKeyErrorNaming(err, item.val.pairs[1].key)

\* the exception carries, as its last note, the body of the statement handled last
AnnotatedWithBody(e, s) ==
    /\ Len(e.notes) > 0
    /\ e.notes[Len(e.notes)] = InnerDictNote(s.pairs[1].key, s.pairs[1].val)

\* C10 as stated: whenever a statement raises, the load is aborted with n
\* unset and the exception carries the statement's body appended.
C10_EveryFailureAnnotated ==
    pc = "failed" => n = None /\ AnnotatedWithBody(err, stmt)

\* ------------------------------------------------- calls of resolve_name
\* the number of calls made on a loaded manager
MaxCalls == 2

\* the document loaded before the calls: an import with the prefix e, a class
\* A and an individual a
ResolvePrelude ==
    <<Stmt(s_import, D2(s_iri, YStr(s_ext_iri), s_ns, YStr(n_e))),
      Stmt(s_owl_class, D1(n_A, D1(s_SubClassOf, owl_Thing))),
      Stmt(s_owl_individual, D1(n_a, D1(s_types, L1(YStr(n_A)))))>>

\* the state when the constructor has loaded the document doc
Loaded(doc) ==
    /\ Is(load_from(NewManager, doc, 1).om)
    /\ raw_data = doc
    /\ n = [t |-> "Container", dict |-> name_mapping]
    /\ pc = "done"
    /\ k = 0
    /\ stmt = None
    /\ ret = None
    /\ err = NoErr

\* the tokens handed to resolve_name: names that are declared, names that are
\* not, names with a prefix, quoted strings and a number
t_u == <<"u">>
t_e_E == <<"e", ":", "E">>
t_e_r == <<"e", ":", "r">>
t_e_u == <<"e", ":", "u">>
t_x_y == <<"x", ":", "y">>
t_sq_A == <<"'", "A", "'">>
t_dq_A == <<"\"", "A", "\"">>
t_sq_u == <<"'", "u", "'">>
t_sq_empty == <<"'", "'">>
t_A_sq == <<"A", "'">>
t_sq_A_dq == <<"'", "A", "\"">>

ResolveTokens ==
    {YStr(n_A), YStr(n_a), YStr(s_owl_Thing), YStr(t_e_E), YStr(t_e_r), YStr(s_ext_iri \o <<"E">>),
     YStr(t_u), YStr(t_e_u), YStr(t_x_y), YStr(t_A_sq), YStr(t_sq_A_dq),
     YStr(t_sq_A), YStr(t_dq_A), YStr(t_sq_u), YStr(t_sq_empty), YInt(3)}

\* a call of om.resolve_name(object_or_name, accept_unquoted_strs)
ResolveName(object_or_name, accept_unquoted_strs) ==
    /\ pc = "done"
    /\ k < MaxCalls
    /\ LET r == resolve_name(Self, object_or_name, accept_unquoted_strs)
       IN /\ Becomes(r.om)
          /\ ret' = r.ret
          /\ err' = r.err
    /\ k' = k + 1
    /\ stmt' = [t |-> "call", args |-> <<object_or_name, YBool(accept_unquoted_strs)>>,
                f |-> "resolve_name"]
    /\ UNCHANGED <<raw_data, n, pc>>

\* the documents loaded before the calls: the prelude and its beginnings
InitResolve == \E len \in 0..Len(ResolvePrelude) : Loaded(SubSeq(ResolvePrelude, 1, len))

NextResolve ==
    \E object_or_name \in ResolveTokens, accept_unquoted_strs \in BOOLEAN :
        ResolveName(object_or_name, accept_unquoted_strs)

SpecResolve == InitResolve /\ [][NextResolve]_vars

\* the last step was a call of resolve_name
ResolveCalled == k > 0 /\ stmt.t = "call" /\ stmt.f = "resolve_name"
Token == stmt.args[1]
Accept == stmt.args[2].b

\* the token is a string without matching quotes that the lookup does not find
UnknownUnquoted(om, token) ==
    /\ IsStr(token)
    /\ ~quoted_string_re_match(token.s)
    /\ ~_resolve_name(om, token.s).success

\* C7: for an unquoted string token found neither in the namespace nor in an
\* imported ontology, resolve_name raises UnknownEntityError naming the token
\* when accept_unquoted_strs is false and returns the token itself when it is
\* true; the namespace, the imports and the library are left as they were.
C7_UnknownUnquotedToken ==
    [][(k' = k + 1 /\ stmt'.t = "call" /\ UnknownUnquoted(Self, stmt'.args[1]))
       => /\ IF stmt'.args[2].b
             THEN ~IsErr(err') /\ ret' = stmt'.args[1]
             ELSE /\ err'.type = "UnknownEntityError"
                  /\ err'.args = <<stmt'.args[1].s>>
                  /\ ret' = None
          /\ UNCHANGED <<name_mapping, imported_ontologies, world, roles, concepts, rules>>]_vars

\* an unknown token with a known prefix was refused, after an accepted call
C7_Witness ==
    /\ ResolveCalled
    /\ k = 2
    /\ Token = YStr(t_e_u)
    /\ ~Accept
    /\ err.type = "UnknownEntityError"
    /\ err.args = <<t_e_u>>

\* the text between the quote markers of a quoted token
Unquoted(s) == SubSeq(s, 2, Len(s) - 1)

\* C8 as stated: a token in matching quotes is returned as a string with the
\* quote markers stripped, without a lookup in the namespace.
C8_QuotesStripped ==
    (ResolveCalled /\ IsStr(Token) /\ quoted_string_re_match(Token.s))
        => ~IsErr(err) /\ ret = YStr(Unquoted(Token.s))

\* C8, amended: a token in matching double or single quotes is returned as it
\* is, the quote markers still in it, and is never looked up in the namespace:
\* the result is the string also when the quoted text is a declared name.
C8_QuotedReturnedAsIs ==
    (/\ ResolveCalled
     /\ IsStr(Token)
     /\ Len(Token.s) >= 2
     /\ Token.s[1] \in {"'", "\""}
     /\ Token.s[Len(Token.s)] = Token.s[1])
        => /\ ~IsErr(err)
           /\ ret = Token
           /\ Unquoted(Token.s) \in DOMAIN name_mapping => ret # name_mapping[Unquoted(Token.s)]

\* the quoted name of the declared class A was resolved without accepting
\* unquoted strings
C8_Witness ==
    /\ ResolveCalled
    /\ Token = YStr(t_sq_A)
    /\ ~Accept
    /\ n_A \in DOMAIN name_mapping
    /\ ret = YStr(t_sq_A)

\* ---------------------------------------- calls of process_restriction_body
\* the document loaded before the call: a class A, an individual a and the
\* roles p and q
ParserPrelude ==
    <<Stmt(s_owl_class, D1(n_A, D1(s_SubClassOf, owl_Thing))),
      Stmt(s_owl_individual, D1(n_a, D1(s_types, L1(YStr(n_A))))),
      Stmt(s_owl_object_property, D1(n_p, D2(s_Domain, owl_Thing, s_Range, owl_Thing))),
      Stmt(s_owl_object_property, D1(n_q, D2(s_Domain, owl_Thing, s_Range, owl_Thing)))>>

\* the keys at the role positions of a body (u is not declared), the
\* quantifiers and the terminal values
RoleKeys == {n_p, n_q, t_u}
Quantifiers == {s_some, s_value}
Terminals == {YStr(n_a), YInt(3)}
s_only == <<"o", "n", "l", "y">>

\* the role keys and quantifiers put around a nested body: every role key
\* with some, and value (which takes no nested body) with the role p
Enclosing == {<<key, s_some>> : key \in RoleKeys} \cup {<<n_p, s_value>>}

RECURSIVE Bodies(_)
\* the restriction bodies of nesting depth 1..depth
Bodies(depth) ==
    IF depth = 0 THEN {}
    ELSE LET inner == Bodies(depth - 1)
         IN inner
            \cup {D1(key, D1(q, v)) : key \in RoleKeys, q \in Quantifiers, v \in Terminals}
            \cup {D1(e[1], D1(e[2], b)) : e \in Enclosing, b \in inner}

\* bodies with Inverse at the outermost role position, and one whose
\* quantifier is not a restriction type
OtherBodies ==
    {D1(s_Inverse, b) : b \in Bodies(2)} \cup {D1(n_p, D1(s_only, YStr(n_a)))}

RestrictionBodies == Bodies(MaxDepth) \cup OtherBodies

\* a call of property_restriction_parser.process_restriction_body(data_dict)
\* on the loaded manager
ProcessRestrictionBody(data_dict) ==
    /\ pc = "done"
    /\ stmt = None
    /\ LET r == process_restriction_body(Self, data_dict)
       IN /\ Becomes(r.om)
          /\ ret' = r.ret
          /\ err' = r.err
    /\ k' = k + 1
    /\ stmt' = [t |-> "call", args |-> <<data_dict>>, f |-> "process_restriction_body"]
    /\ UNCHANGED <<raw_data, n, pc>>

InitParser == Loaded(ParserPrelude)

\* one call is made on the loaded manager
NextParser ==
    /\ stmt = None
    /\ \E data_dict \in RestrictionBodies : ProcessRestrictionBody(data_dict)

SpecParser == InitParser /\ [][NextParser]_vars

ParserCalled == k > 0 /\ stmt.t = "call" /\ stmt.f = "process_restriction_body"
Body == stmt.args[1]

RECURSIVE DocLayers(_)
\* the (role key, quantifier) pairs of a body, read from the document from
\* the outside in; a role under Inverse is marked
DocLayers(b) ==
    LET inv == b.pairs[1].key = s_Inverse
        rv == IF inv THEN b.pairs[1].val.pairs[1] ELSE b.pairs[1]
        q == rv.val.pairs[1]
    IN <<[q |-> q.key, role |-> rv.key, inv |-> inv]>>
       \o (IF IsDict(q.val) THEN DocLayers(q.val) ELSE <<>>)

RECURSIVE DocTerminal(_)
\* the innermost value of a body
DocTerminal(b) ==
    LET rv == IF b.pairs[1].key = s_Inverse THEN b.pairs[1].val.pairs[1] ELSE b.pairs[1]
        q == rv.val.pairs[1]
    IN IF IsDict(q.val) THEN DocTerminal(q.val) ELSE q.val

RECURSIVE Unnest(_)
\* the (property, restriction type) pairs of a restriction, from the outside in
Unnest(r) ==
    IF r.t = "restr" THEN <<[prop |-> r.prop, q |-> r.rtype]>> \o Unnest(r.value) ELSE <<>>

RECURSIVE Innermost(_)
Innermost(r) == IF r.t = "restr" THEN Innermost(r.value) ELSE r

\* a body built from declared roles and restriction types, each nested body
\* under some (the parser asserts it, core.py line 1481)
BuiltFromKnownRoles(b) ==
    LET doc == DocLayers(b)
    IN /\ \A i \in 1..Len(doc) : doc[i].role \in DOMAIN roles /\ doc[i].q \in Quantifiers
       /\ \A i \in 1..(Len(doc) - 1) : doc[i].q = s_some

\* C2: for a body of depth d (1 to 5) built from known roles the parser returns
\* a restriction of exactly d layers; un-nested from the outside they are the
\* body's roles and quantifiers in document order, around the body's terminal
\* value: R1.q1(R2.q2(...Rd.qd(T))), never the left-associated form. Whatever
\* else the parser returns without an error is nested the same way.
C2_RightNested ==
    /\ (ParserCalled /\ BuiltFromKnownRoles(Body)) => ~IsErr(err)
    /\ (ParserCalled /\ ~IsErr(err)) =>
        LET doc == DocLayers(Body)
            got == Unnest(ret)
            terminal == DocTerminal(Body)
        IN /\ Len(got) = Len(doc)
           /\ Len(got) \in 1..MaxDepth
           /\ \A i \in 1..Len(doc) :
                 /\ got[i].q = doc[i].q
                 /\ got[i].prop = IF doc[i].inv THEN Inverse(roles[doc[i].role])
                                  ELSE roles[doc[i].role]
           /\ Innermost(ret) = IF IsStr(terminal) THEN name_mapping[terminal.s] ELSE terminal

\* {p: {some: {q: {value: a}}}} gave p.some(q.value(a))
C2_Witness ==
    /\ ParserCalled
    /\ Body = D1(n_p, D1(s_some, D1(n_q, D1(s_value, YStr(n_a)))))
    /\ ret = Restriction(roles[n_p], s_some, Restriction(roles[n_q], s_value, name_mapping[n_a]))
    /\ ret # Restriction(Restriction(roles[n_p], s_some, roles[n_q]), s_value, name_mapping[n_a])

RECURSIVE UndeclaredRoleKeys(_)
\* the keys at the role positions of a body that are no declared role
UndeclaredRoleKeys(b) ==
    LET inv == b.pairs[1].key = s_Inverse
        rv == IF inv THEN b.pairs[1].val.pairs[1] ELSE b.pairs[1]
        q == rv.val.pairs[1]
    IN (IF rv.key \in DOMAIN roles THEN {} ELSE {rv.key})
       \cup (IF IsDict(q.val) THEN UndeclaredRoleKeys(q.val) ELSE {})

\* C5 as stated: a body with an undeclared name at a role position, at
\* whatever nesting level, fails with UnknownEntityError naming that key.
C5_UnknownEntityError ==
    (ParserCalled /\ UndeclaredRoleKeys(Body) # {}) =>
        /\ err.type = "UnknownEntityError"
        /\ \E key \in UndeclaredRoleKeys(Body) : err.args = <<key>>

RECURSIVE ReachedUndeclared(_)
\* the undeclared key the parser reaches, if any: every level around it is a
\* declared role (or Inverse of one) followed by some
ReachedUndeclared(b) ==
    LET inv == b.pairs[1].key = s_Inverse
        rv == IF inv THEN b.pairs[1].val.pairs[1] ELSE b.pairs[1]
        q == rv.val.pairs[1]
    IN IF rv.key \notin DOMAIN roles THEN {rv.key}
       ELSE IF q.key = s_some /\ IsDict(q.val) THEN ReachedUndeclared(q.val)
       ELSE {}

\* C5, amended: a body whose key at a role position is no declared role, every
\* level around that position being a declared role (or Inverse of one)
\* followed by some, fails with a ValueError that is no UnknownEntityError and
\* whose message names exactly that key, at whatever depth the position is.
C5_ValueErrorNamesKey ==
    (ParserCalled /\ ReachedUndeclared(Body) # {}) =>
        /\ err.type = "ValueError"
        /\ \A key \in ReachedUndeclared(Body) : err.args = <<key>>

\* the undeclared key was at the third level
C5_Witness ==
    /\ ParserCalled
    /\ Body = D1(n_p, D1(s_some, D1(n_q, D1(s_some, D1(t_u, D1(s_value, YStr(n_a)))))))
    /\ err.type = "ValueError"
    /\ err.args = <<t_u>>

\* ------------------------------------------------ loads of property facts
n_c == <<"c">>
n_f == <<"f">>

\* the document read before the facts: the individuals a, b and c, the
\* functional property f, the property p and the data property d
FactsPrelude ==
    <<Stmt(s_owl_multiple_individuals,
           D2(s_names, YList(<<YStr(n_a), YStr(n_b), YStr(n_c)>>), s_types, L1(owl_Thing))),
      Stmt(s_owl_object_property,
           D1(n_f, YDict(<<KV(s_Domain, owl_Thing), KV(s_Range, owl_Thing),
                           KV(s_Characteristics, L1(YStr(s_Functional)))>>))),
      Stmt(s_owl_object_property, D1(n_p, D2(s_Domain, owl_Thing, s_Range, owl_Thing))),
      Stmt(s_owl_data_property, D1(n_d, D2(s_Domain, owl_Thing, s_Range, YStr(s_int))))>>

\* the state of load_ontology when it has handled the statements of doc
ReadSoFar(doc) ==
    /\ Is(load_from(NewManager, doc, 1).om)
    /\ raw_data = doc
    /\ n = None
    /\ pc = "loading"
    /\ k = 0
    /\ stmt = None
    /\ ret = None
    /\ err = NoErr

Fact(subject, value) == D1(subject, value)
FactsOf(prop, facts) == Stmt(s_property_facts, D1(prop, D1(s_Facts, YList(facts))))

\* property_facts statements: one fact, two facts, a fact with a list; and
\* facts that give the object properties p and f a number, a name that is
\* not declared or a quoted string, alone, in a list and behind another fact
FactsStatements ==
    {FactsOf(n_f, <<Fact(n_a, YStr(n_b))>>),
     FactsOf(n_f, <<Fact(n_a, YStr(n_c))>>),
     FactsOf(n_f, <<Fact(n_a, YStr(n_b)), Fact(n_a, YStr(n_c))>>),
     FactsOf(n_f, <<Fact(n_a, YList(<<YStr(n_b), YStr(n_c)>>))>>),
     FactsOf(n_p, <<Fact(n_a, YStr(n_b))>>),
     FactsOf(n_p, <<Fact(n_a, YList(<<YStr(n_c), YStr(n_b)>>))>>),
     FactsOf(n_p, <<Fact(n_a, YStr(n_c)), Fact(n_b, YStr(n_c))>>),
     FactsOf(n_d, <<Fact(n_a, YInt(1))>>),
     FactsOf(n_d, <<Fact(n_a, YList(<<YInt(2), YInt(1)>>))>>),
     FactsOf(n_p, <<Fact(n_a, YInt(5))>>),
     FactsOf(n_p, <<Fact(n_a, YList(<<YStr(n_b), YInt(5)>>))>>),
     FactsOf(n_p, <<Fact(n_a, YStr(t_u))>>),
     FactsOf(n_p, <<Fact(n_a, YList(<<YStr(n_b), YStr(t_sq_u)>>))>>),
     FactsOf(n_p, <<Fact(n_b, YStr(n_c)), Fact(n_a, YInt(5)), Fact(n_a, YStr(n_c))>>),
     FactsOf(n_f, <<Fact(n_a, YInt(5))>>)}

more_property_facts == \E s \in FactsStatements : LoadStatement(s)

InitFacts == ReadSoFar(FactsPrelude)

NextFacts == more_property_facts \/ FinishLoad

SpecFacts == InitFacts /\ [][NextFacts]_vars

RECURSIVE Flatten(_)
\* the concatenation of a sequence of sequences
Flatten(ss) == IF ss = <<>> THEN <<>> ELSE Head(ss) \o Flatten(Tail(ss))

\* the value a token of the document stands for
Denoted(token) == IF IsStr(token) THEN name_mapping[token.s] ELSE token

\* the values a property_facts statement asserts for subject under prop, in
\* the order of the document
AssertedIn(s, subject, prop) ==
    IF s.pairs[1].key # s_property_facts \/ ~HasKey(s.pairs[1].val, prop) THEN <<>>
    ELSE LET facts == Item(Item(s.pairs[1].val, prop), s_Facts).items
         IN Flatten([i \in 1..Len(facts) |->
                IF facts[i].pairs[1].key # subject THEN <<>>
                ELSE LET tokens == ensure_list(facts[i].pairs[1].val).items
                     IN [j \in 1..Len(tokens) |-> Denoted(tokens[j])]])

\* all the values the document read so far asserts for subject under prop
Asserted(subject, prop) ==
    Flatten([i \in 1..Len(raw_data) |-> AssertedIn(raw_data[i], subject, prop)])

\* the declaration of prop lists the characteristic Functional
DeclaresFunctional(s, prop) ==
    /\ s.pairs[1].key \in {s_owl_object_property, s_owl_data_property}
    /\ HasKey(s.pairs[1].val, prop)
    /\ LET given == ensure_list(DictGet(Item(s.pairs[1].val, prop), s_Characteristics)).items
       IN \E j \in 1..Len(given) : given[j] = YStr(s_Functional)

DeclaredFunctional(prop) ==
    \E i \in 1..Len(raw_data) : DeclaresFunctional(raw_data[i], prop)

\* C3: when the facts read so far were all applied, a subject holds under a
\* functional property only the value of the last fact asserted for it, and
\* under a property that is not functional the list of all the values
\* asserted for it, in the order of assertion, none dropped.
C3_FactsStored ==
    pc # "failed" =>
        \A subject \in {n_a, n_b, n_c}, prop \in {n_f, n_p, n_d} :
            LET asserted == Asserted(subject, prop)
                stored == world[subject].vals
            IN IF asserted = <<>> THEN prop \notin DOMAIN stored
               ELSE /\ prop \in DOMAIN stored
                    /\ stored[prop] = IF DeclaredFunctional(prop)
                                      THEN asserted[Len(asserted)]
                                      ELSE YList(asserted)

\* a holds c under f after b and then c were asserted, and b, c, b under p
C3_Witness ==
    /\ pc = "loading"
    /\ k = 3
    /\ Asserted(n_a, n_f) = <<name_mapping[n_b], name_mapping[n_c]>>
    /\ {n_f, n_p} \subseteq DOMAIN world[n_a].vals
    /\ world[n_a].vals[n_f] = name_mapping[n_c]
    /\ world[n_a].vals[n_p] = YList(<<name_mapping[n_b], name_mapping[n_c], name_mapping[n_b]>>)

\* the property and the facts of a property_facts statement of one property
FactsProperty(s) == s.pairs[1].val.pairs[1].key
FactsList(s) == DictGet(s.pairs[1].val.pairs[1].val, s_Facts).items

\* the token is a primitive value: a number, or a string that is no name of
\* an entity
IsPrimitiveValue(token) == ~IsStr(token) \/ token.s \notin DOMAIN name_mapping

\* the fact gives the property a primitive value, alone or in a list
GivesPrimitive(fact) ==
    \E i \in 1..Len(ensure_list(fact.pairs[1].val).items) :
        IsPrimitiveValue(ensure_list(fact.pairs[1].val).items[i])

\* the facts that process_property_facts has to reject
RejectedFacts(s) ==
    {i \in 1..Len(FactsList(s)) :
        \/ roles[FactsProperty(s)].kind = "ObjectProperty" /\ GivesPrimitive(FactsList(s)[i])
        \/ DeclaredFunctional(FactsProperty(s)) /\ IsList(FactsList(s)[i].pairs[1].val)}

\* C19: a property_facts statement with a fact that gives an object property
\* a primitive value (a number, or a string that resolves to no entity),
\* alone or as an element of a list, or that gives a functional property a
\* list, fails with TypeError at the first such fact: the subjects hold what
\* they held before and the values of the facts in front of it, and none of
\* the values of that fact or of the facts behind it.
C19_PrimitiveRejected ==
    [][(k' = k + 1 /\ stmt'.pairs[1].key = s_property_facts /\ RejectedFacts(stmt') # {}) =>
         LET prop == FactsProperty(stmt')
             first == CHOOSE i \in RejectedFacts(stmt') : \A j \in RejectedFacts(stmt') : i <= j
             before == FactsOf(prop, SubSeq(FactsList(stmt'), 1, first - 1))
         IN /\ err'.type = "TypeError"
            /\ DOMAIN world' = DOMAIN world
            /\ \A x \in DOMAIN world :
                  LET more == AssertedIn(before, x, prop)
                  IN IF more = <<>> THEN world'[x].vals = world[x].vals
                     ELSE /\ DOMAIN world'[x].vals = (DOMAIN world[x].vals) \cup {prop}
                          /\ \A q \in (DOMAIN world[x].vals) \ {prop} :
                                world'[x].vals[q] = world[x].vals[q]
                          /\ world'[x].vals[prop] =
                                IF DeclaredFunctional(prop) THEN more[Len(more)]
                                ELSE YList(owl_getattr(world, Ent("Individual", x), roles[prop]).items \o more)]_vars

\* a held b under p; the statement that gives p the facts b: c, a: 5 and
\* a: c failed at a: 5, so b holds c, and a holds b and neither 5 nor c
C19_Witness ==
    /\ pc = "failed"
    /\ k = 2
    /\ err.type = "TypeError"
    /\ stmt = FactsOf(n_p, <<Fact(n_b, YStr(n_c)), Fact(n_a, YInt(5)), Fact(n_a, YStr(n_c))>>)
    /\ n_p \in DOMAIN world[n_a].vals
    /\ n_p \in DOMAIN world[n_b].vals
    /\ world[n_a].vals[n_p] = YList(<<name_mapping[n_b]>>)
    /\ world[n_b].vals[n_p] = YList(<<name_mapping[n_c]>>)

\* --------------------------------------- loads of relation concept facts
n_X_R == <<"X", "_", "R">>
n_X_S == <<"X", "_", "S">>
n_X_hasR == <<"X", "_", "h", "a", "s", "R">>
n_X_hasS == <<"X", "_", "h", "a", "s", "S">>

RelationConceptClass(name) ==
    Stmt(s_owl_class, D1(name, D2(s_SubClassOf, YStr(s_X_RelationConcept),
                                  s_X_associatedWithClasses, L1(owl_Thing))))

\* the document read before the facts: X_RelationConcept, its subclasses X_R
\* and X_S (which brings the roles X_hasR and X_hasS), the individuals a and
\* b and the data property d
RelationConceptPrelude ==
    <<Stmt(s_owl_class, D1(s_X_RelationConcept, D1(s_SubClassOf, owl_Thing))),
      RelationConceptClass(n_X_R),
      RelationConceptClass(n_X_S),
      Stmt(s_owl_multiple_individuals,
           D2(s_names, YList(<<YStr(n_a), YStr(n_b)>>), s_types, L1(owl_Thing))),
      Stmt(s_owl_data_property, D1(n_d, D2(s_Domain, owl_Thing, s_Range, YStr(s_int))))>>

\* a relation: the dict of the role values of one new relation individual
Relation(i) == D1(n_d, YInt(i))

\* relation_concept_facts statements: one and two relations of one type, both
\* types for one subject, two subjects, and an unknown second subject
RelationConceptFacts ==
    {Stmt(s_relation_concept_facts, D1(n_a, D1(n_X_hasR, L1(Relation(1))))),
     Stmt(s_relation_concept_facts, D1(n_a, D1(n_X_hasR, YList(<<Relation(2), Relation(3)>>)))),
     Stmt(s_relation_concept_facts, D1(n_b, D1(n_X_hasS, L1(Relation(4))))),
     Stmt(s_relation_concept_facts,
          D1(n_a, D2(n_X_hasR, L1(Relation(5)), n_X_hasS, L1(Relation(6))))),
     Stmt(s_relation_concept_facts,
          D2(n_b, D1(n_X_hasS, L1(Relation(7))), n_a, D1(n_X_hasR, L1(Relation(8))))),
     Stmt(s_relation_concept_facts,
          D2(n_a, D1(n_X_hasR, L1(Relation(9))), t_u, D1(n_X_hasR, L1(Relation(9)))))}

more_relation_concept_facts == \E s \in RelationConceptFacts : LoadStatement(s)

InitRC == ReadSoFar(RelationConceptPrelude)

NextRC == more_relation_concept_facts \/ FinishLoad

SpecRC == InitRC /\ [][NextRC]_vars

\* the relations a statement gives under role, each with its subject, in the
\* order of the document
RelationsIn(s, role) ==
    IF s.pairs[1].key # s_relation_concept_facts THEN <<>>
    ELSE LET subjects == s.pairs[1].val.pairs
         IN Flatten([i \in 1..Len(subjects) |->
                IF ~HasKey(subjects[i].val, role) THEN <<>>
                ELSE [j \in 1..Len(Item(subjects[i].val, role).items) |->
                         [subject |-> subjects[i].key,
                          relation |-> Item(subjects[i].val, role).items[j]]]])

\* all the relations the document read so far gives under role
Relations(role) ==
    Flatten([i \in 1..Len(raw_data) |-> RelationsIn(raw_data[i], role)])

\* the individuals the library holds whose first type is the class named concept
IndividualsOf(concept) ==
    {x \in DOMAIN world : world[x].kind = "Individual" /\ world[x].is_a[1].name = concept}

\* the name i<C>_<number>
RelationName(concept, number) == <<"i">> \o concept \o <<"_">> \o IntToStr(number)

\* C4: when the statements read so far were all applied, the relation
\* individuals of a concept type C are named i<C>_0, i<C>_1, ... in the order
\* in which the document gives the relations of that type, over all
\* statements and subjects: the one numbered j carries the values of the
\* j-th relation of type C and belongs to its subject, and relations of
\* another type do not advance the numbers of C.
C4_RelationNames ==
    pc # "failed" =>
        \A rc \in {<<n_X_R, n_X_hasR>>, <<n_X_S, n_X_hasS>>} :
            LET concept == rc[1]
                role == rc[2]
                given == Relations(role)
            IN /\ IndividualsOf(concept) = {RelationName(concept, j - 1) : j \in 1..Len(given)}
               /\ \A j \in 1..Len(given) :
                     LET name == RelationName(concept, j - 1)
                     IN /\ world[name].vals = (n_d :> YList(<<Item(given[j].relation, n_d)>>))
                        /\ \E i \in 1..Len(world[given[j].subject].vals[role].items) :
                              world[given[j].subject].vals[role].items[i].name = name

\* three relations of type X_R and two of type X_S were created in turn
C4_Witness ==
    /\ pc = "loading"
    /\ k = 3
    /\ Len(Relations(n_X_hasR)) = 3
    /\ Len(Relations(n_X_hasS)) = 2
    /\ raw_data[Len(raw_data)].pairs[1].val.pairs[1].key = n_b
    /\ RelationName(n_X_R, 2) \in DOMAIN world
    /\ RelationName(n_X_S, 1) \in DOMAIN world
    /\ RelationName(n_X_S, 2) \notin DOMAIN world
\* ------------------------------------- loads with references between statements
\* the document read before: the class A, the individual a, the object
\* property p and the data property d
ForwardPrelude ==
    <<Stmt(s_owl_class, D1(n_A, D1(s_SubClassOf, owl_Thing))),
      Stmt(s_owl_individual, D1(n_a, D1(s_types, L1(YStr(n_A))))),
      Stmt(s_owl_object_property, D1(n_p, D2(s_Domain, owl_Thing, s_Range, owl_Thing))),
      Stmt(s_owl_data_property, D1(n_d, D2(s_Domain, owl_Thing, s_Range, YStr(s_str))))>>

RestrictionOf(subject, body) == Stmt(s_restriction, D2(s_Subject, YStr(subject), s_Body, body))

\* statements that declare the class B, the individual b and the property q,
\* and statements that use these names: as a parent class, a type, a domain,
\* an inverse, the property or the subject of a fact, the subject or a role
\* of a restriction, a different individual (the positions resolved
\* strictly), and as the value of a fact or of a restriction
ForwardStatements ==
    {Stmt(s_owl_class, D1(n_B, D1(s_SubClassOf, YStr(n_A)))),
     Stmt(s_owl_individual, D1(n_b, D1(s_types, L1(YStr(n_A))))),
     Stmt(s_owl_object_property, D1(n_q, D2(s_Domain, YStr(n_B), s_Range, YStr(n_A)))),
     Stmt(s_owl_class, D1(n_C, D1(s_SubClassOf, YStr(n_B)))),
     Stmt(s_owl_individual, D1(n_c, D1(s_types, L1(YStr(n_B))))),
     Stmt(s_owl_inverse_property, D1(n_r, D1(s_Inverse, YStr(n_q)))),
     FactsOf(n_d, <<Fact(n_a, YStr(n_b))>>),
     FactsOf(n_p, <<Fact(n_a, YStr(n_b))>>),
     FactsOf(n_p, <<Fact(n_b, YStr(n_a))>>),
     FactsOf(n_q, <<Fact(n_a, YStr(n_a))>>),
     RestrictionOf(n_a, D1(n_p, D1(s_some, YStr(n_B)))),
     RestrictionOf(n_a, D1(n_p, D1(s_some, D1(n_p, D1(s_value, YStr(n_b)))))),
     RestrictionOf(n_b, D1(n_p, D1(s_value, YStr(n_a)))),
     RestrictionOf(n_a, D1(n_q, D1(s_some, YStr(n_A)))),
     RestrictionOf(n_a, D1(n_p, D1(s_some, YStr(n_A)))),
     RestrictionOf(n_A, D1(n_p, D1(s_some, YStr(n_A)))),
     Stmt(s_different_individuals, YList(<<YStr(n_a), YStr(n_b)>>))}

statement_with_references == \E s \in ForwardStatements : LoadStatement(s)

InitForward == ReadSoFar(ForwardPrelude)

NextForward == statement_with_references \/ FinishLoad

SpecForward == InitForward /\ [][NextForward]_vars

\* the names written in a raw value: a string or the strings of a list, those
\* in quotes left out
NamesIn(v) ==
    IF IsStr(v) THEN IF quoted_string_re_match(v.s) THEN {} ELSE {v.s}
    ELSE IF IsList(v)
    THEN {v.items[i].s : i \in {j \in 1..Len(v.items) :
                                   IsStr(v.items[j]) /\ ~quoted_string_re_match(v.items[j].s)}}
    ELSE {}

\* the facts of a property_facts statement: [prop, value, subject]
FactsIn(s) ==
    UNION {{[prop |-> s.pairs[1].val.pairs[i].key,
             value |-> DictGet(s.pairs[1].val.pairs[i].val, s_Facts).items[j].pairs[1].val,
             subject |-> DictGet(s.pairs[1].val.pairs[i].val, s_Facts).items[j].pairs[1].key]
            : j \in 1..Len(DictGet(s.pairs[1].val.pairs[i].val, s_Facts).items)}
           : i \in 1..Len(s.pairs[1].val.pairs)}

\* the names a statement uses at the positions that are resolved with
\* resolve_name(name), by keyword
StrictRefs(s) ==
    LET key == s.pairs[1].key
        body == s.pairs[1].val
    IN CASE key = s_owl_class -> NamesIn(DictGet(body.pairs[1].val, s_SubClassOf))
         [] key = s_owl_individual -> NamesIn(DictGet(body.pairs[1].val, s_types))
         [] key \in {s_owl_object_property, s_owl_data_property} ->
                NamesIn(DictGet(body.pairs[1].val, s_Domain))
                \cup NamesIn(DictGet(body.pairs[1].val, s_Range))
         [] key = s_owl_inverse_property -> NamesIn(DictGet(body.pairs[1].val, s_Inverse))
         [] key = s_property_facts ->
                {f.prop : f \in FactsIn(s)} \cup {f.subject : f \in FactsIn(s)}
         [] key = s_restriction -> NamesIn(DictGet(body, s_Subject))
         [] key = s_different_individuals -> NamesIn(body)
         [] OTHER -> {}

\* the names at the role positions of the body of a restriction statement
RoleRefs(s) ==
    IF s.pairs[1].key # s_restriction THEN {}
    ELSE LET doc == DocLayers(DictGet(s.pairs[1].val, s_Body))
         IN {doc[i].role : i \in 1..Len(doc)}

\* the names a statement uses at the positions that are resolved with
\* accept_unquoted_strs=True: the values of facts, the value of a restriction
ValueRefs(s) ==
    LET key == s.pairs[1].key
    IN CASE key = s_property_facts -> UNION {NamesIn(f.value) : f \in FactsIn(s)}
         [] key = s_restriction -> NamesIn(DocTerminal(DictGet(s.pairs[1].val, s_Body)))
         [] OTHER -> {}

Declares(s) == s.pairs[1].key \in DeclarationKeywords

\* the names declared when the i-th statement of the document is read
DeclaredBefore(i) ==
    (DOMAIN InitialNameMapping)
    \cup {DeclaredName(raw_data[m]) : m \in {x \in 1..(i - 1) : Declares(raw_data[x])}}

\* the names of a set that a statement after the i-th declares
DeclaredLater(i, names) ==
    {name \in names : \E j \in (i + 1)..Len(raw_data) :
                          Declares(raw_data[j]) /\ DeclaredName(raw_data[j]) = name}

\* the i-th statement was read and did not fail
WasApplied(i) == i < Len(raw_data) \/ (i = Len(raw_data) /\ pc # "failed")

\* the load failed at the i-th statement
FailedAt(i) == i = Len(raw_data) /\ pc = "failed"

\* the manager is what the statements read so far make of a new one, each
\* applied once, in the order of the document
InOrderOnce ==
    LET r == load_from(NewManager, raw_data, 1)
    IN /\ Is(r.om)
       /\ (pc = "failed") = IsErr(r.err)
       /\ pc = "failed" => err = r.err

\* the name written as a value in statement s is stored as the string it is
KeptAsString(s, name) ==
    IF s.pairs[1].key = s_restriction
    THEN LET is_a == world[DictGet(s.pairs[1].val, s_Subject).s].is_a
         IN \E m \in 1..Len(is_a) :
               /\ is_a[m].t = "restr"
               /\ Unnest(is_a[m]) = [i \in 1..Len(DocLayers(DictGet(s.pairs[1].val, s_Body))) |->
                                        [prop |-> roles[DocLayers(DictGet(s.pairs[1].val, s_Body))[i].role],
                                         q |-> DocLayers(DictGet(s.pairs[1].val, s_Body))[i].q]]
               /\ Innermost(is_a[m]) = YStr(name)
    ELSE \A f \in FactsIn(s) :
            name \in NamesIn(f.value) =>
                LET stored == world[f.subject].vals
                IN /\ f.prop \in DOMAIN stored
                   /\ \E m \in 1..Len(stored[f.prop].items) : stored[f.prop].items[m] = YStr(name)

\* a name that was no entity when statement i used it as a value is still
\* held as a string, whatever was declared since
NeverBoundLater ==
    \A i \in 1..Len(raw_data) :
        WasApplied(i) =>
            \A name \in ValueRefs(raw_data[i]) \ DeclaredBefore(i) :
                KeptAsString(raw_data[i], name)

\* C11 as stated: the statements are applied once each in document order; a
\* statement that uses, at whatever position, the name of a class, property
\* or individual that a later statement declares first makes the load fail
\* at that statement; no use is bound later to the entity declared since.
C11_ForwardReferenceFails ==
    /\ InOrderOnce
    /\ \A i \in 1..Len(raw_data) :
          LET used == StrictRefs(raw_data[i]) \cup RoleRefs(raw_data[i]) \cup ValueRefs(raw_data[i])
          IN DeclaredLater(i, used \ DeclaredBefore(i)) # {} => FailedAt(i)
    /\ NeverBoundLater

\* the exception names one of the names as unknown: UnknownEntityError of
\* resolve_name, or the ValueError of the restriction parser for a role
NamesUnknown(e, names) ==
    \E name \in names :
        /\ e.args = <<name>>
        /\ \/ e.type = "UnknownEntityError"
           \/ e.type = "ValueError" /\ e.fmt = "Unknown key: {}. Expected role name."

\* C11, amended: the statements are applied once each in document order; a
\* statement that uses a name not declared before it at a position that is
\* resolved strictly (parent class, type, domain, range, inverse, property or
\* subject of a fact, subject or role of a restriction, different
\* individual) makes the load fail at that statement with an error naming
\* it, so no later statement can declare it; a name not declared before that
\* is used as the value of a fact or of a restriction is rejected or stored
\* as a string, and stays that string when a later statement declares it.
C11_StrictReferenceFails ==
    /\ InOrderOnce
    /\ \A i \in 1..Len(raw_data) :
          LET missing == (StrictRefs(raw_data[i]) \cup RoleRefs(raw_data[i])) \ DeclaredBefore(i)
          IN missing # {} => FailedAt(i) /\ NamesUnknown(err, missing)
    /\ NeverBoundLater

\* the restriction a: p some B was read before B was declared and holds the
\* string; the load then failed at a restriction whose subject b is unknown
C11_Witness ==
    /\ pc = "failed"
    /\ k = 3
    /\ raw_data[Len(raw_data) - 2] = RestrictionOf(n_a, D1(n_p, D1(s_some, YStr(n_B))))
    /\ raw_data[Len(raw_data) - 1] = Stmt(s_owl_class, D1(n_B, D1(s_SubClassOf, YStr(n_A))))
    /\ n_B \in DOMAIN name_mapping
    /\ \E m \in 1..Len(world[n_a].is_a) :
          world[n_a].is_a[m] = Restriction(roles[n_p], s_some, YStr(n_B))
    /\ stmt = RestrictionOf(n_b, D1(n_p, D1(s_value, YStr(n_a))))
    /\ err.type = "UnknownEntityError"
    /\ err.args = <<n_b>>

\* the subject and the body of a restriction statement
SubjectOf(s) == DictGet(s.pairs[1].val, s_Subject).s
BodyOf(s) == DictGet(s.pairs[1].val, s_Body)

\* r is the restriction that the body b denotes: its layers are the roles and
\* restriction types of b from the outside in, around the resolved terminal
\* value of b
IsParsedBody(r, b) ==
    /\ r.t = "restr"
    /\ Unnest(r) = [i \in 1..Len(DocLayers(b)) |->
                       [prop |-> roles[DocLayers(b)[i].role], q |-> DocLayers(b)[i].q]]
    /\ Innermost(r) = IF DocTerminal(b).s \in DOMAIN name_mapping
                      THEN name_mapping[DocTerminal(b).s] ELSE DocTerminal(b)

\* C18: a restriction statement that is applied appends exactly one
\* restriction, the parsed body, to the is_a list of its subject and leaves
\* the is_a lists of all other entities as they are; one that fails changes
\* no is_a list; and no statement of a load takes an element from the is_a
\* list of an entity: the list before the statement is a prefix of the list
\* after it.
C18_RestrictionAppended ==
    [][/\ \A x \in DOMAIN world :
             /\ x \in DOMAIN world'
             /\ Len(world[x].is_a) <= Len(world'[x].is_a)
             /\ SubSeq(world'[x].is_a, 1, Len(world[x].is_a)) = world[x].is_a
       /\ (k' = k + 1 /\ stmt'.pairs[1].key = s_restriction) =>
             /\ DOMAIN world' = DOMAIN world
             /\ IF IsErr(err')
                THEN \A x \in DOMAIN world : world'[x].is_a = world[x].is_a
                ELSE /\ Len(world'[SubjectOf(stmt')].is_a) = Len(world[SubjectOf(stmt')].is_a) + 1
                     /\ IsParsedBody(world'[SubjectOf(stmt')].is_a[Len(world'[SubjectOf(stmt')].is_a)],
                                     BodyOf(stmt'))
                     /\ \A x \in (DOMAIN world) \ {SubjectOf(stmt')} :
                           world'[x].is_a = world[x].is_a]_vars

\* a got the restrictions p some A and p some (p value b) behind its type A
C18_Witness ==
    /\ pc = "loading"
    /\ k = 3
    /\ stmt = RestrictionOf(n_a, D1(n_p, D1(s_some, D1(n_p, D1(s_value, YStr(n_b))))))
    /\ n_b \in DOMAIN name_mapping
    /\ world[n_a].is_a =
          <<Ent("Class", n_A),
            Restriction(roles[n_p], s_some, Ent("Class", n_A)),
            Restriction(roles[n_p], s_some, Restriction(roles[n_p], s_value, Ent("Individual", n_b)))>>
    /\ world[n_b].is_a = <<Ent("Class", n_A)>>
\* ------------------------------------------------ individuals and their types
IndividualKeywords == {s_owl_individual, s_owl_multiple_individuals}

\* the raw types of the statement of an individual (or of several)
TypesOf(s) ==
    IF s.pairs[1].key = s_owl_individual
    THEN DictGet(s.pairs[1].val.pairs[1].val, s_types)
    ELSE DictGet(s.pairs[1].val, s_types)

\* the names the statement gives its individuals, in the order of the document
IndividualNamesOf(s) ==
    IF s.pairs[1].key = s_owl_individual
    THEN <<s.pairs[1].val.pairs[1].key>>
    ELSE [i \in 1..Len(DictGet(s.pairs[1].val, s_names).items) |->
             DictGet(s.pairs[1].val, s_names).items[i].s]

\* every entry of a raw list of types is the name of a class
TypesAreClasses(types) ==
    \A i \in 1..Len(types.items) :
        /\ IsStr(types.items[i])
        /\ types.items[i].s \in DOMAIN name_mapping
        /\ IsClass(name_mapping[types.items[i].s])

\* C12: the declaration of an individual whose types list has more than one
\* entry fails and registers no name, with NotImplementedError when the name
\* is new and the types are classes; a name that a declaration of
\* individuals registers is bound to an individual whose types list had
\* exactly one entry, the class it is created from.
C12_OnePrimaryClass ==
    [][(k' = k + 1 /\ stmt'.pairs[1].key \in IndividualKeywords) =>
          LET types == TypesOf(stmt')
              names == IndividualNamesOf(stmt')
          IN /\ (IsList(types) /\ Len(types.items) > 1) =>
                   /\ IsErr(err')
                   /\ name_mapping' = name_mapping
                   /\ (names[1] \notin DOMAIN name_mapping /\ TypesAreClasses(types))
                         => err'.type = "NotImplementedError"
             /\ \A x \in (DOMAIN name_mapping') \ (DOMAIN name_mapping) :
                   /\ IsList(types)
                   /\ Len(types.items) = 1
                   /\ name_mapping'[x] = Ent("Individual", x)
                   /\ world'[x].is_a = <<name_mapping[types.items[1].s]>>]_vars

\* after the class A and the individual a (of one type), the declaration of b
\* with the types owl:Thing and A failed and b is not registered
C12_Witness ==
    /\ pc = "failed"
    /\ k = 3
    /\ stmt = Stmt(s_owl_individual, D1(n_b, D1(s_types, YList(<<owl_Thing, YStr(n_A)>>))))
    /\ err.type = "NotImplementedError"
    /\ n_a \in DOMAIN name_mapping
    /\ IsThing(name_mapping[n_a])
    /\ IsClass(name_mapping[n_A])
    /\ n_b \notin DOMAIN name_mapping
\* ------------------------------------------------------- loads of classes
n_X_T == <<"X", "_", "T">>
n_X_U == <<"X", "_", "U">>
n_Rel == <<"R", "e", "l">>
n_X_hasT == <<"X", "_", "h", "a", "s", "T">>
n_P == <<"P">>
n_Q == <<"Q">>
n_R == <<"R">>
n_S == <<"S">>
n_T == <<"T">>
n_F == <<"F">>
n_G == <<"G">>
n_H == <<"H">>

\* the document read before: X_RelationConcept (which brings the generic
\* main role) and the class A
ClassesPrelude ==
    <<Stmt(s_owl_class, D1(s_X_RelationConcept, D1(s_SubClassOf, owl_Thing))),
      Stmt(s_owl_class, D1(n_A, D1(s_SubClassOf, owl_Thing)))>>

ClassOf(name, parents) == Stmt(s_owl_class, D1(name, D1(s_SubClassOf, parents)))
ClassWith(name, parents, key, value) ==
    Stmt(s_owl_class, D1(name, D2(s_SubClassOf, parents, key, value)))

\* subclasses of X_RelationConcept: direct (X_R), through X_R (X_S), with
\* X_RelationConcept as second parent (X_T), without the prefix X_ (Rel),
\* without associated classes (X_U)
RelationConceptClasses ==
    {RelationConceptClass(n_X_R),
     ClassWith(n_X_S, YStr(n_X_R), s_X_associatedWithClasses, L1(YStr(n_A))),
     ClassWith(n_X_T, YList(<<YStr(n_A), YStr(s_X_RelationConcept)>>),
               s_X_associatedWithClasses, YList(<<YStr(n_A), owl_Thing>>)),
     ClassWith(n_Rel, YStr(s_X_RelationConcept), s_X_associatedWithClasses, L1(owl_Thing)),
     ClassOf(n_X_U, YStr(s_X_RelationConcept))}

\* classes with the flag __create_proxy_individual: True (P), recursive (R),
\* False under a recursive parent (F); and classes without the flag under
\* them: Q under P, S under R, T under S, G under F, H under A and R
ProxyClasses ==
    {ClassWith(n_P, owl_Thing, s_create_proxy_individual, YBool(TRUE)),
     ClassOf(n_Q, YStr(n_P)),
     ClassWith(n_R, owl_Thing, s_create_proxy_individual, YStr(s_recursive)),
     ClassOf(n_S, YStr(n_R)),
     ClassOf(n_T, YStr(n_S)),
     ClassWith(n_F, YStr(n_R), s_create_proxy_individual, YBool(FALSE)),
     ClassOf(n_G, YStr(n_F)),
     ClassOf(n_H, YList(<<YStr(n_A), YStr(n_R)>>))}

relation_concept_class == \E s \in RelationConceptClasses : LoadStatement(s)
class_with_proxy_flag == \E s \in ProxyClasses : LoadStatement(s)

InitClasses == ReadSoFar(ClassesPrelude)

NextClasses == relation_concept_class \/ class_with_proxy_flag \/ FinishLoad

SpecClasses == InitClasses /\ [][NextClasses]_vars

\* the name and the body of an owl_class statement
ClassName(s) == s.pairs[1].val.pairs[1].key
ClassBody(s) == s.pairs[1].val.pairs[1].val
\* the raw parents of an owl_class statement, as a list of tokens
ParentsOf(s) == ensure_list(DictGet(ClassBody(s), s_SubClassOf)).items

\* the parent-class chain of the class that s declares includes
\* X_RelationConcept: a parent is X_RelationConcept or a subclass of it
ChainIncludesRelationConcept(s) ==
    /\ ~IsNone(RelationConcept)
    /\ \E i \in 1..Len(ParentsOf(s)) :
          /\ ParentsOf(s)[i].s \in DOMAIN name_mapping
          /\ IsClass(name_mapping[ParentsOf(s)[i].s])
          /\ issubclass(world, name_mapping[ParentsOf(s)[i].s], RelationConcept)

\* X_RelationConcept is itself among the parents
IsDirectRelationConcept(s) ==
    \E i \in 1..Len(ParentsOf(s)) : ParentsOf(s)[i].s = s_X_RelationConcept

\* the statement gives X_associatedWithClasses as a list of declared classes
\* and no X_associatedRoles
HasAssociatedClasses(s) ==
    /\ HasKey(ClassBody(s), s_X_associatedWithClasses)
    /\ ~HasKey(ClassBody(s), s_X_associatedRoles)
    /\ TypesAreClasses(Item(ClassBody(s), s_X_associatedWithClasses))

\* the name of the main role of the relation concept X_<Name>
MainRoleName(concept_name) ==
    <<"X", "_", "h", "a", "s">> \o SubSeq(concept_name, 3, Len(concept_name))

\* s declares a new class named X_<Name> with associated classes
DeclaresRelationConcept(s) ==
    /\ s.pairs[1].key = s_owl_class
    /\ ClassName(s) \notin DOMAIN name_mapping
    /\ ClassName(s) # s_X_RelationConcept
    /\ StartsWith(ClassName(s), <<"X", "_">>)
    /\ HasAssociatedClasses(s)

\* C13: the declaration of a class X_<Name> with associated classes whose
\* parent-class chain includes X_RelationConcept, directly or through
\* relation-concept subclasses in between, does not fail and leaves a main
\* role of that class in the role table and among the main roles.
C13_ExpansionCompletes ==
    [][(k' = k + 1 /\ DeclaresRelationConcept(stmt') /\ ChainIncludesRelationConcept(stmt'))
       => /\ ~IsErr(err')
          /\ MainRoleName(ClassName(stmt')) \in DOMAIN roles'
          /\ \E i \in 1..Len(relation_concept_main_roles') :
                relation_concept_main_roles'[i].name = MainRoleName(ClassName(stmt'))]_vars

\* C14: the declaration of a new class X_<Name> with associated classes D and
\* X_RelationConcept among its parents succeeds; where such a declaration of
\* a subclass of X_RelationConcept succeeds, it creates exactly one role,
\* named X_has<Name>, registered in the namespace and in the role table, an
\* object property with domain D and range [the class], and the generic main
\* role is among its super-properties. The declaration of a subclass whose
\* name does not start with X_ fails with ValueError and creates no role.
C14_MainRole ==
    [][/\ (k' = k + 1 /\ DeclaresRelationConcept(stmt') /\ IsDirectRelationConcept(stmt'))
          => ~IsErr(err')
       /\ (/\ k' = k + 1
           /\ DeclaresRelationConcept(stmt')
           /\ ChainIncludesRelationConcept(stmt')
           /\ ~IsErr(err'))
          => LET name == MainRoleName(ClassName(stmt'))
                 role == Ent("ObjectProperty", name)
                 D == Item(ClassBody(stmt'), s_X_associatedWithClasses).items
             IN /\ (DOMAIN roles') \ (DOMAIN roles) = {name}
                /\ (DOMAIN world') \ (DOMAIN world) = {name, ClassName(stmt')}
                /\ roles'[name] = role
                /\ name_mapping'[name] = role
                /\ world'[name].kind = "ObjectProperty"
                /\ world'[name].domain = [i \in 1..Len(D) |-> name_mapping[D[i].s]]
                /\ world'[name].range = <<Ent("Class", ClassName(stmt'))>>
                /\ \E i \in 1..Len(world'[name].is_a) :
                      world'[name].is_a[i] = RelationConcept_generic_main_role
                /\ relation_concept_main_roles' = Append(relation_concept_main_roles, role)
       /\ (/\ k' = k + 1
           /\ stmt'.pairs[1].key = s_owl_class
           /\ ~StartsWith(ClassName(stmt'), <<"X", "_">>)
           /\ ChainIncludesRelationConcept(stmt'))
          => /\ err'.type = "ValueError"
             /\ roles' = roles
             /\ relation_concept_main_roles' = relation_concept_main_roles]_vars

\* X_T, with A and X_RelationConcept as parents and A and owl:Thing as
\* associated classes, got the main role X_hasT after X_R got its own
C14_Witness ==
    /\ pc = "loading"
    /\ k = 2
    /\ stmt = ClassWith(n_X_T, YList(<<YStr(n_A), YStr(s_X_RelationConcept)>>),
                        s_X_associatedWithClasses, YList(<<YStr(n_A), owl_Thing>>))
    /\ n_X_hasR \in DOMAIN roles
    /\ n_X_hasT \in DOMAIN roles
    /\ world[n_X_hasT].domain = <<name_mapping[n_A], Thing>>
    /\ world[n_X_hasT].range = <<name_mapping[n_X_T]>>
    /\ world[n_X_hasT].is_a = <<ObjectProperty, RelationConcept_generic_main_role>>

\* the value of the flag __create_proxy_individual in an owl_class statement
FlagOf(s) == DictGet(ClassBody(s), s_create_proxy_individual)

\* the flag stored for the class named c, <<>> when none is stored
StoredFlag(c) ==
    IF <<c, s_create_proxy_individual>> \in DOMAIN custom_attribute_store
    THEN custom_attribute_store[<<c, s_create_proxy_individual>>]
    ELSE <<>>

\* the statement asks for a proxy individual: by its flag, or without a flag
\* by the flag recursive stored for its first parent
AsksForProxy(s) ==
    \/ FlagOf(s) = YBool(TRUE)
    \/ FlagOf(s) = YStr(s_recursive)
    \/ IsNone(FlagOf(s)) /\ StoredFlag(ParentsOf(s)[1].s) = s_recursive

ProxyName(c) == <<"i">> \o c

\* the library holds the individual i<c> as an instance of the class c
HasProxyIndividual(c) ==
    /\ ProxyName(c) \in DOMAIN world
    /\ world[ProxyName(c)].kind = "Individual"
    /\ \E i \in 1..Len(world[ProxyName(c)].is_a) : world[ProxyName(c)].is_a[i] = Ent("Class", c)

\* the owl_class statements of the document that were applied
AppliedClassStatements ==
    {i \in 1..Len(raw_data) : WasApplied(i) /\ raw_data[i].pairs[1].key = s_owl_class}

\* C16: for every class declared with the flag True or recursive, or without
\* a flag under a first parent whose stored flag is recursive, the individual
\* i<ClassName> is an instance of the class and the name i<ClassName> is in
\* the name mapping; for a class with the flag False the name is not in the
\* name mapping, and no flag is stored that a subclass could inherit.
C16_ProxyIndividuals ==
    \A i \in AppliedClassStatements :
        LET c == ClassName(raw_data[i])
        IN /\ AsksForProxy(raw_data[i]) =>
                 /\ HasProxyIndividual(c)
                 /\ ProxyName(c) \in DOMAIN name_mapping
           /\ FlagOf(raw_data[i]) = YBool(FALSE) =>
                 /\ ProxyName(c) \notin DOMAIN name_mapping
                 /\ StoredFlag(c) = <<>>
\* ------------------------------ loads of relations with several role values
\* the document read before the facts: X_RelationConcept, its subclass X_R
\* (which brings the role X_hasR), the individuals a and b, the data property
\* d, the functional object property f and the object property p
RelationsPrelude ==
    <<Stmt(s_owl_class, D1(s_X_RelationConcept, D1(s_SubClassOf, owl_Thing))),
      RelationConceptClass(n_X_R),
      Stmt(s_owl_multiple_individuals,
           D2(s_names, YList(<<YStr(n_a), YStr(n_b)>>), s_types, L1(owl_Thing))),
      Stmt(s_owl_data_property, D1(n_d, D2(s_Domain, owl_Thing, s_Range, YStr(s_int)))),
      Stmt(s_owl_object_property,
           D1(n_f, YDict(<<KV(s_Domain, owl_Thing), KV(s_Range, owl_Thing),
                           KV(s_Characteristics, L1(YStr(s_Functional)))>>))),
      Stmt(s_owl_object_property, D1(n_p, D2(s_Domain, owl_Thing, s_Range, owl_Thing)))>>

RelationsOf(subject, relations) ==
    Stmt(s_relation_concept_facts, D1(subject, D1(n_X_hasR, YList(relations))))

\* relation_concept_facts statements of one subject and the role X_hasR with
\* no, one and two relations, whose role values go to d, f and p; the number 9
\* is no value for the object properties p and f
RelationsStatements ==
    {RelationsOf(n_a, <<D2(n_d, YInt(1), n_f, YStr(n_b))>>),
     RelationsOf(n_a, <<D1(n_d, YInt(2)), D2(n_f, YStr(n_a), n_d, YInt(3))>>),
     RelationsOf(n_b, <<D2(n_f, YStr(n_a), n_p, YStr(n_b))>>),
     RelationsOf(n_a, <<D1(n_d, YInt(4)), D2(n_d, YInt(5), n_p, YInt(9))>>),
     RelationsOf(n_b, <<D1(n_p, YInt(9))>>),
     RelationsOf(n_b, <<D1(n_f, YInt(9))>>),
     RelationsOf(n_a, <<>>)}

relations_of_a_subject == \E s \in RelationsStatements : LoadStatement(s)

InitRelations == ReadSoFar(RelationsPrelude)

NextRelations == relations_of_a_subject \/ FinishLoad

SpecRelations == InitRelations /\ [][NextRelations]_vars

\* the subject, the main role and the list of dicts of a statement
RcSubject(s) == s.pairs[1].val.pairs[1].key
RcRole(s) == s.pairs[1].val.pairs[1].val.pairs[1].key
RcDicts(s) == s.pairs[1].val.pairs[1].val.pairs[1].val.items

\* the values the library holds for the individual named x under role,
\* <<>> when it holds none
ValuesOf(w, x, role) ==
    IF role \in DOMAIN w[x].vals THEN w[x].vals[role].items ELSE <<>>

\* the role values that the dict gives: each of its values is resolved, a
\* functional property holds it, another property holds the list of it
RoleValuesOf(dict) ==
    [key \in {dict.pairs[i].key : i \in 1..Len(dict.pairs)} |->
        LET raw == Item(dict, key)
            value == IF IsStr(raw) /\ raw.s \in DOMAIN name_mapping
                     THEN name_mapping[raw.s] ELSE raw
        IN IF is_functional_for(world, roles[key]) THEN value ELSE YList(<<value>>)]

\* C15: a relation_concept_facts statement with subject S, main role M and a
\* list of k dicts extends the M-values of S, behind those of earlier
\* statements, by the individuals that it creates, new ones of the range
\* concept of M, in the order of the list; whenever the statement stops, each
\* individual that it created is among the M-values of S, so it was linked
\* before its role values were set; when the statement succeeds there are k
\* of them, and each individual whose dict was read to the end carries
\* exactly the role values of that dict, as the single value of a functional
\* property and as a list under another one.
C15_RelationsLinkedThenFilled ==
    [][(k' = k + 1 /\ stmt'.pairs[1].key = s_relation_concept_facts) =>
         LET S == RcSubject(stmt')
             M == RcRole(stmt')
             dicts == RcDicts(stmt')
             old == ValuesOf(world, S, M)
             new == ValuesOf(world', S, M)
             added == SubSeq(new, Len(old) + 1, Len(new))
             created == (DOMAIN world') \ (DOMAIN world)
             complete == IF IsErr(err') THEN Len(added) - 1 ELSE Len(added)
         IN /\ SubSeq(new, 1, Len(old)) = old
            /\ {added[i].name : i \in 1..Len(added)} = created
            /\ Cardinality(created) = Len(added)
            /\ Len(added) <= Len(dicts)
            /\ ~IsErr(err') => Len(added) = Len(dicts)
            /\ \A i \in 1..Len(added) :
                  /\ added[i] = Ent("Individual", added[i].name)
                  /\ world'[added[i].name].kind = "Individual"
                  /\ world'[added[i].name].is_a = <<world[M].range[1]>>
                  /\ \A j \in 1..(i - 1) : added[j] # added[i]
            /\ \A i \in 1..complete : world'[added[i].name].vals = RoleValuesOf(dicts[i])]_vars

\* after three relations of a, the statement with the dicts {d: 4} and
\* {d: 5, p: 9} failed at p: 9 with the fifth relation created, linked to a
\* and holding d: 5 only; the third relation holds a as the single value of f
C15_Witness ==
    /\ pc = "failed"
    /\ k = 3
    /\ err.type = "TypeError"
    /\ stmt = RelationsOf(n_a, <<D1(n_d, YInt(4)), D2(n_d, YInt(5), n_p, YInt(9))>>)
    /\ n_X_hasR \in DOMAIN world[n_a].vals
    /\ world[n_a].vals[n_X_hasR].items =
          [i \in 1..5 |-> Ent("Individual", RelationName(n_X_R, i - 1))]
    /\ RelationName(n_X_R, 4) \in DOMAIN world
    /\ n_d \in DOMAIN world[RelationName(n_X_R, 4)].vals
    /\ world[RelationName(n_X_R, 4)].vals[n_d] = YList(<<YInt(5)>>)
    /\ RelationName(n_X_R, 2) \in DOMAIN world
    /\ world[RelationName(n_X_R, 2)].vals = (n_f :> name_mapping[n_a]) @@ (n_d :> YList(<<YInt(3)>>))
\* ---------------------------------------------- construction of a manager
\* "https://w3id.org/yet/undefined/ontology#"
s_default_iri ==
    <<"h", "t", "t", "p", "s", ":", "/", "/", "w", "3", "i", "d", ".", "o", "r", "g", "/", "y", "e", "t", "/", "u", "n", "d", "e", "f", "i", "n", "e", "d", "/", "o", "n", "t", "o", "l", "o", "g", "y", "#">>
t_iri_1 == <<"h", "t", "t", "p", ":", "/", "/", "x", "/", "1", "#">>
t_iri_2 == <<"h", "t", "t", "p", ":", "/", "/", "x", "/", "2", "#">>

\* dict(item for dct in raw_data for item in dct.items()), from the i-th
\* dict of raw_data (dicts) on: a later item replaces the value of an equal key
RECURSIVE all_dicts_from(_, _, _)
all_dicts_from(dicts, i, acc) ==
    IF i > Len(dicts) THEN acc
    ELSE all_dicts_from(dicts, i + 1,
                        IF Len(dicts[i].pairs) = 0 THEN acc
                        ELSE DictSet(acc, dicts[i].pairs[1].key, dicts[i].pairs[1].val))

\* the union of the dicts in which the first value of a key is kept
RECURSIVE first_of_all_dicts_from(_, _, _)
first_of_all_dicts_from(dicts, i, acc) ==
    IF i > Len(dicts) THEN acc
    ELSE first_of_all_dicts_from(dicts, i + 1,
                        IF Len(dicts[i].pairs) = 0 \/ HasKey(acc, dicts[i].pairs[1].key) THEN acc
                        ELSE DictSet(acc, dicts[i].pairs[1].key, dicts[i].pairs[1].val))

\* _get_from_all_dicts with the first value of a key in the document
_get_from_all_dicts_first(dicts, key, default) ==
    IF HasKey(first_of_all_dicts_from(dicts, 1, YDict(<<>>)), key)
    THEN Item(first_of_all_dicts_from(dicts, 1, YDict(<<>>)), key)
    ELSE default

\* _get_from_all_dicts(key, default)
_get_from_all_dicts(dicts, key, default) ==
    IF HasKey(all_dicts_from(dicts, 1, YDict(<<>>)), key)
    THEN Item(all_dicts_from(dicts, 1, YDict(<<>>)), key)
    ELSE default

\* the statements of the documents: two that give an iri, two declarations
\* and one that fails
IriStatements ==
    {Stmt(s_iri, YStr(t_iri_1)),
     Stmt(s_iri, YStr(t_iri_2)),
     Stmt(s_owl_class, D1(n_A, D1(s_SubClassOf, owl_Thing))),
     Stmt(s_owl_individual, D1(n_a, D1(s_types, L1(owl_Thing)))),
     Stmt(s_owl_individual, D1(n_b, D1(s_types, L1(YStr(n_A)))))}

\* the documents of at most MaxStmts statements
IriDocuments == UNION {[1..len -> IriStatements] : len \in 0..MaxStmts}

\* the document is read (_load_yaml), nothing else is done yet
Constructing(doc) ==
    /\ Is(NewManager)
    /\ raw_data = doc
    /\ n = None
    /\ pc = "constructing"
    /\ k = 0
    /\ stmt = None
    /\ ret = None
    /\ err = NoErr

\* OntologyManager(fpath, world): __init__ takes the iri from the document
\* and calls load_ontology; the caller gets the manager, here its attribute
\* iri, unless the load fails
Construct ==
    /\ pc = "constructing"
    /\ LET r == load_from(Self, raw_data, 1)
       IN /\ Becomes(r.om)
          /\ err' = r.err
          /\ pc' = IF IsErr(r.err) THEN "failed" ELSE "done"
          /\ n' = IF IsErr(r.err) THEN None ELSE [t |-> "Container", dict |-> r.om.name_mapping]
          /\ ret' = IF IsErr(r.err) THEN None
                    ELSE [iri |-> _get_from_all_dicts(raw_data, s_iri, YStr(s_default_iri))]
    /\ UNCHANGED <<raw_data, k, stmt>>

InitIri == \E doc \in IriDocuments : Constructing(doc)

NextIri == Construct

SpecIri == InitIri /\ [][NextIri]_vars

\* the positions of the iri statements of the document
IriPositions == {i \in 1..Len(raw_data) : raw_data[i].pairs[1].key = s_iri}

\* the document without its iri statements
WithoutIri == SelectSeq(raw_data, LAMBDA s : s.pairs[1].key # s_iri)

\* C17: the iri of a constructed manager is the value of the iri statement
\* of the document, of the last one when there are several, and
\* https://w3id.org/yet/undefined/ontology# when there is none; the
\* manager, and the failure of a load, is that of the document without its
\* iri statements: they create no entity and register no name.
C17_IriOfDocument ==
    pc # "constructing" =>
        /\ pc = "done" =>
              ret.iri = IF IriPositions = {} THEN YStr(s_default_iri)
                        ELSE raw_data[CHOOSE i \in IriPositions : \A j \in IriPositions : j <= i].pairs[1].val
        /\ Is(load_from(NewManager, WithoutIri, 1).om)
        /\ err = load_from(NewManager, WithoutIri, 1).err

\* the document gives one iri, declares A and a and gives another iri: the
\* manager has the second iri and the names A and a
C17_Witness ==
    /\ pc = "done"
    /\ raw_data = <<Stmt(s_iri, YStr(t_iri_1)),
                    Stmt(s_owl_class, D1(n_A, D1(s_SubClassOf, owl_Thing))),
                    Stmt(s_iri, YStr(t_iri_2))>>
    /\ ret.iri = YStr(t_iri_2)
    /\ n_A \in DOMAIN name_mapping
    /\ t_iri_2 \notin DOMAIN name_mapping
    /\ DOMAIN world = DOMAIN InitialWorld \cup {n_A}
\* ------------------------------------------- loads of inverse properties
n_g == <<"g">>
n_h == <<"h">>

PropertyOf(keyword, name, domain, range, characteristics) ==
    Stmt(keyword, D1(name, YDict(<<KV(s_Domain, domain), KV(s_Range, range),
                                   KV(s_Characteristics, YList(characteristics))>>)))

\* the document read before: the class A, the object properties p, f
\* (Functional), g (InverseFunctional) and h (both) and the data property d
InversePrelude ==
    <<Stmt(s_owl_class, D1(n_A, D1(s_SubClassOf, owl_Thing))),
      Stmt(s_owl_object_property, D1(n_p, D2(s_Domain, YStr(n_A), s_Range, owl_Thing))),
      PropertyOf(s_owl_object_property, n_f, owl_Thing, YStr(n_A), <<YStr(s_Functional)>>),
      PropertyOf(s_owl_object_property, n_g, YStr(n_A), YStr(n_A), <<YStr(s_InverseFunctional)>>),
      PropertyOf(s_owl_object_property, n_h, owl_Thing, owl_Thing,
                 <<YStr(s_Functional), YStr(s_InverseFunctional)>>),
      Stmt(s_owl_data_property, D1(n_d, D2(s_Domain, YStr(n_A), s_Range, YStr(s_int))))>>

InverseOf(name, existing) == Stmt(s_owl_inverse_property, D1(name, D1(s_Inverse, YStr(existing))))

\* owl_inverse_property statements that declare q or r as the inverse of a
\* property, of q or r, of the class A or of an unknown name, and statements
\* without the keyword Inverse
InverseStatements ==
    {InverseOf(name, existing) : name \in {n_q, n_r},
                                 existing \in {n_p, n_f, n_g, n_h, n_d, n_q, n_r, n_A, t_u}}
    \cup {Stmt(s_owl_inverse_property, D1(name, D1(s_Domain, owl_Thing))) : name \in {n_q, n_r}}

inverse_property == \E s \in InverseStatements : LoadStatement(s)

InitInverse == ReadSoFar(InversePrelude)

NextInverse == inverse_property \/ FinishLoad

SpecInverse == InitInverse /\ [][NextInverse]_vars

\* the characteristic is among those of the property named x in the library w
HasCharacteristic(w, x, characteristic) ==
    \E i \in 1..Len(w[x].chars) : w[x].chars[i] = characteristic

Layer(key, q, v) == D1(key, D1(q, v))
Inv(b) == D1(s_Inverse, b)
EmptyDict == YDict(<<>>)

\* bodies that parse: Inverse at the outermost, at an inner and at the
\* innermost role position, terminals under value and under some
ParsedBodies ==
    {Layer(n_p, s_value, YStr(n_a)),
     Layer(n_p, s_some, YStr(n_A)),
     Layer(n_q, s_value, YInt(3)),
     Layer(n_p, s_some, Layer(n_q, s_value, YStr(n_a))),
     Inv(Layer(n_p, s_value, YStr(n_a))),
     Layer(n_p, s_some, Inv(Layer(n_q, s_value, YStr(n_a)))),
     Layer(n_p, s_some, Layer(n_q, s_some, Inv(Layer(n_p, s_value, YInt(3))))),
     Layer(n_p, s_some, Inv(Layer(n_q, s_some, Layer(n_p, s_value, YStr(n_a))))),
     Inv(Layer(n_p, s_some, Inv(Layer(n_q, s_some, Layer(n_p, s_value, YStr(n_a))))))}

\* bodies with a key that is no role or no restriction type, and a dict
\* under value; some fail after roles and restriction types were collected
RejectedBodies ==
    {Layer(t_u, s_value, YStr(n_a)),
     Layer(n_p, s_some, Layer(t_u, s_value, YStr(n_a))),
     Inv(Layer(t_u, s_some, YStr(n_A))),
     Layer(n_p, s_some, Inv(Layer(t_u, s_value, YStr(n_a)))),
     Layer(n_p, s_some, Layer(n_q, s_some, Inv(Layer(n_b, s_value, YStr(n_a))))),
     Layer(n_p, s_only, YStr(n_a)),
     Layer(n_p, s_some, Layer(n_q, s_only, YStr(n_a))),
     Layer(n_p, s_value, Layer(n_q, s_value, YStr(n_a))),
     Layer(n_p, s_some, YStr(t_u))}

\* bodies with a level of no key or of two keys: the body itself, the dict
\* under a role, the dict under Inverse, at the outermost level and below
MalformedBodies ==
    {EmptyDict,
     D2(n_p, D1(s_value, YStr(n_a)), n_q, D1(s_value, YStr(n_a))),
     D1(n_p, EmptyDict),
     D1(n_p, D2(s_some, YStr(n_A), s_value, YStr(n_a))),
     Inv(EmptyDict),
     Inv(D2(n_p, D1(s_value, YStr(n_a)), n_q, D1(s_value, YStr(n_a)))),
     Layer(n_p, s_some, EmptyDict),
     Layer(n_p, s_some, D2(n_q, D1(s_value, YStr(n_a)), n_p, D1(s_value, YStr(n_a)))),
     Layer(n_p, s_some, D1(n_q, EmptyDict)),
     Layer(n_p, s_some, Inv(EmptyDict)),
     Inv(D1(n_p, D2(s_some, YStr(n_A), s_value, YStr(n_a)))),
     Layer(t_u, s_some, EmptyDict)}

WalkBodies == ParsedBodies \cup RejectedBodies \cup MalformedBodies

\* one more call of property_restriction_parser.process_restriction_body on
\* the loaded manager, whatever the call before left in the parser
NextRestrictionBody(data_dict) ==
    /\ pc = "done"
    /\ k < MaxCalls
    /\ LET r == process_restriction_body(Self, data_dict)
       IN /\ Becomes(r.om)
          /\ ret' = r.ret
          /\ err' = r.err
    /\ k' = k + 1
    /\ stmt' = [t |-> "call", args |-> <<data_dict>>, f |-> "process_restriction_body"]
    /\ UNCHANGED <<raw_data, n, pc>>

\* the restriction dicts given to add_restriction_from_dict: the subject a
\* or A, and a body that parses or that has a level of no key or of two keys
RestrictionDicts ==
    {D2(s_Subject, YStr(subject), s_Body, body) :
        subject \in {n_a, n_A},
        body \in MalformedBodies \cup {Layer(n_p, s_value, YStr(n_a)),
                                      Layer(n_p, s_some, Inv(Layer(n_q, s_value, YStr(n_a)))),
                                      Layer(n_p, s_some, Layer(t_u, s_value, YStr(n_a)))}}

\* a call of add_restriction_from_dict(data_dict) on the loaded manager
AddRestrictionFromDict(data_dict) ==
    /\ pc = "done"
    /\ k < MaxCalls
    /\ LET r == add_restriction_from_dict(Self, data_dict)
       IN /\ Becomes(r.om)
          /\ ret' = r.ret
          /\ err' = r.err
    /\ k' = k + 1
    /\ stmt' = [t |-> "call", args |-> <<data_dict>>, f |-> "add_restriction_from_dict"]
    /\ UNCHANGED <<raw_data, n, pc>>

InitWalk == Loaded(ParserPrelude)

NextWalk ==
    \/ \E data_dict \in WalkBodies : NextRestrictionBody(data_dict)
    \/ \E data_dict \in RestrictionDicts : AddRestrictionFromDict(data_dict)

SpecWalk == InitWalk /\ [][NextWalk]_vars

RECURSIVE Chained(_)
\* a body whose levels have one key each, down to the terminal value: a role
\* key, or Inverse over a role key, over a restriction type
Chained(b) ==
    /\ IsDict(b)
    /\ Len(b.pairs) = 1
    /\ IsDict(b.pairs[1].val)
    /\ Len(b.pairs[1].val.pairs) = 1
    /\ IF b.pairs[1].key = s_Inverse
       THEN /\ IsDict(b.pairs[1].val.pairs[1].val)
            /\ Len(b.pairs[1].val.pairs[1].val.pairs) = 1
            /\ (IsDict(b.pairs[1].val.pairs[1].val.pairs[1].val)
                   => Chained(b.pairs[1].val.pairs[1].val.pairs[1].val))
       ELSE IsDict(b.pairs[1].val.pairs[1].val) => Chained(b.pairs[1].val.pairs[1].val)

\* the role sequence of a body: each role, the one under Inverse as its inverse
RoleSequence(b) ==
    [i \in 1..Len(DocLayers(b)) |->
        [prop |-> IF DocLayers(b)[i].inv
                  THEN [t |-> "inv", prop |-> roles[DocLayers(b)[i].role]]
                  ELSE roles[DocLayers(b)[i].role],
         q |-> DocLayers(b)[i].q]]

RECURSIVE ReachedUnderInverse(_)
\* the key under Inverse that the parser reaches and that is no declared role
ReachedUnderInverse(b) ==
    LET inv == b.pairs[1].key = s_Inverse
        rv == IF inv THEN b.pairs[1].val.pairs[1] ELSE b.pairs[1]
        q == rv.val.pairs[1]
    IN IF rv.key \notin DOMAIN roles THEN (IF inv THEN {rv.key} ELSE {})
       ELSE IF q.key = s_some /\ IsDict(q.val) THEN ReachedUnderInverse(q.val)
       ELSE {}

\* the nesting levels (1 = outermost) at which a body has Inverse
InverseLevels(b) == {i \in 1..Len(DocLayers(b)) : DocLayers(b)[i].inv}

\* C21: an Inverse: {R: {q: ...}} layer at any nesting level of a body gives
\* Inverse(R) with the quantifier q at that position of the role chain: the
\* roles and quantifiers of the result are those of the document, each role
\* under Inverse replaced by its inverse; a key under Inverse that is no
\* declared role fails with a ValueError that names the key.
C21_InverseAtAnyLevel ==
    /\ (ParserCalled /\ Chained(Body) /\ BuiltFromKnownRoles(Body)) =>
          /\ ~IsErr(err)
          /\ Unnest(ret) = RoleSequence(Body)
    /\ (ParserCalled /\ Chained(Body) /\ ReachedUnderInverse(Body) # {}) =>
          /\ err.type = "ValueError"
          /\ err.fmt = "A role name is expected after Inverse:. Instead got {}."
          /\ \A key \in ReachedUnderInverse(Body) : err.args = <<key>>

\* Inverse at the second level of a body of three levels gave the inverse of
\* q between p and p
C21_Witness ==
    /\ ParserCalled
    /\ Body = Layer(n_p, s_some, Inv(Layer(n_q, s_some, Layer(n_p, s_value, YStr(n_a)))))
    /\ InverseLevels(Body) = {2}
    /\ ret = Restriction(roles[n_p], s_some,
                 Restriction([t |-> "inv", prop |-> roles[n_q]], s_some,
                     Restriction(roles[n_p], s_value, name_mapping[n_a])))

\* ---------------------------------------- levels of a body with no or two keys
AddCalled == k > 0 /\ stmt.t = "call" /\ stmt.f = "add_restriction_from_dict"

RECURSIVE DictsIn(_)
\* the dicts of a body: the body, the dicts under its keys, and so on
DictsIn(v) ==
    IF ~IsDict(v) THEN {}
    ELSE {v} \cup UNION {DictsIn(v.pairs[i].val) : i \in 1..Len(v.pairs)}

\* some level of the body has no key or more than one
AnyLevelMalformed(b) == \E d \in DictsIn(b) : Len(d.pairs) # 1

RECURSIVE ReachesMalformed(_)
RECURSIVE ReachesMalformedUnderRole(_)
\* the walk of the parser comes to a level of no key or of several keys:
\* every level around it is a declared role, or Inverse of one, followed by some
ReachesMalformed(b) ==
    /\ IsDict(b)
    /\ \/ Len(b.pairs) # 1
       \/ /\ b.pairs[1].key \in DOMAIN roles
          /\ ReachesMalformedUnderRole(b.pairs[1].val)
       \/ /\ b.pairs[1].key = s_Inverse
          /\ IsDict(b.pairs[1].val)
          /\ \/ Len(b.pairs[1].val.pairs) # 1
             \/ /\ b.pairs[1].val.pairs[1].key \in DOMAIN roles
                /\ ReachesMalformedUnderRole(b.pairs[1].val.pairs[1].val)

ReachesMalformedUnderRole(d) ==
    /\ IsDict(d)
    /\ \/ Len(d.pairs) # 1
       \/ d.pairs[1].key = s_some /\ ReachesMalformed(d.pairs[1].val)

\* C23: add_restriction_from_dict with a body in which some level (role
\* level, quantifier level or the dict under Inverse) has no key or more than
\* one key fails, with an AssertionError when the walk comes to that level,
\* and attaches no restriction: the entities are as before the call.
C23_OneKeyPerLevel ==
    [][(k' = k + 1 /\ stmt'.f = "add_restriction_from_dict"
           /\ AnyLevelMalformed(Item(stmt'.args[1], s_Body))) =>
          /\ IsErr(err')
          /\ ReachesMalformed(Item(stmt'.args[1], s_Body)) => err'.type = "AssertionError"
          /\ world' = world]_vars

\* the quantifier level under q, at the second level of the body, had no key:
\* the call failed and a has its type A alone
C23_Witness ==
    /\ AddCalled
    /\ stmt.args[1] = D2(s_Subject, YStr(n_a), s_Body, Layer(n_p, s_some, D1(n_q, EmptyDict)))
    /\ err.type = "AssertionError"
    /\ world[n_a].is_a = <<Ent("Class", n_A)>>

\* ------------------------------------------- what follows a restriction type
\* the first level whose restriction type is neither some nor value, every
\* level around it being followed by some (0: there is none)
FirstUnknownQuantifier(b) ==
    LET doc == DocLayers(b)
        at == {i \in 1..Len(doc) : doc[i].q \notin Quantifiers
                                      /\ \A j \in 1..(i - 1) : doc[j].q = s_some}
    IN IF at = {} THEN 0 ELSE CHOOSE i \in at : TRUE

\* value is followed by a dict, every level around it being followed by some
ValueBeforeDict(b) ==
    \E i \in 1..(Len(DocLayers(b)) - 1) :
        /\ DocLayers(b)[i].q = s_value
        /\ \A j \in 1..(i - 1) : DocLayers(b)[j].q = s_some

\* C22 as stated: value takes a scalar alone and ends the chain, some takes
\* a dict alone: a body of declared roles parses exactly when every level but
\* the last has some and the last has value; some followed by a scalar is
\* rejected like value followed by a dict.
C22_SomeTakesDictOnly ==
    (ParserCalled /\ UndeclaredRoleKeys(Body) = {}
        /\ \A i \in 1..Len(DocLayers(Body)) : DocLayers(Body)[i].q \in Quantifiers) =>
       (~IsErr(err) <=>
           /\ \A i \in 1..(Len(DocLayers(Body)) - 1) : DocLayers(Body)[i].q = s_some
           /\ DocLayers(Body)[Len(DocLayers(Body))].q = s_value)

\* C22, amended: value takes a scalar alone and ends the chain; some takes a
\* dict, into which the walk goes on, or a scalar, which ends the chain as one
\* under value does. A body of declared roles with some and value parses
\* exactly when every level but the last has some; its last restriction type
\* is the one written, around the scalar. value followed by a dict fails with
\* an AssertionError, and a key at the position of a restriction type other
\* than some and value fails with a ValueError that names it.
C22_SomeTakesScalar ==
    (ParserCalled /\ UndeclaredRoleKeys(Body) = {}) =>
       LET doc == DocLayers(Body)
           terminal == DocTerminal(Body)
       IN /\ (\A i \in 1..Len(doc) : doc[i].q \in Quantifiers) =>
                (~IsErr(err) <=> \A i \in 1..(Len(doc) - 1) : doc[i].q = s_some)
          /\ ~IsErr(err) =>
                /\ Unnest(ret)[Len(doc)].q = doc[Len(doc)].q
                /\ Innermost(ret) = IF IsStr(terminal) THEN name_mapping[terminal.s]
                                    ELSE terminal
          /\ ValueBeforeDict(Body) => err.type = "AssertionError"
          /\ FirstUnknownQuantifier(Body) # 0 =>
                /\ err.type = "ValueError"
                /\ err.args = <<doc[FirstUnknownQuantifier(Body)].role,
                                doc[FirstUnknownQuantifier(Body)].q>>

\* a scalar under some at the second level ended the chain
C22_Witness ==
    /\ ParserCalled
    /\ Body = D1(n_q, D1(s_some, D1(n_p, D1(s_some, YInt(3)))))
    /\ ret = Restriction(roles[n_q], s_some, Restriction(roles[n_p], s_some, YInt(3)))

\* ------------------------------------------- calls of the parse functions
\* the document loaded before the calls: the classes A, B and C, the
\* individual a and the role p
KeywordPrelude ==
    <<Stmt(s_owl_class, D1(n_A, D1(s_SubClassOf, owl_Thing))),
      Stmt(s_owl_class, D1(n_B, D1(s_SubClassOf, owl_Thing))),
      Stmt(s_owl_class, D1(n_C, D1(s_SubClassOf, YStr(n_A)))),
      Stmt(s_owl_individual, D1(n_a, D1(s_types, L1(YStr(n_A))))),
      Stmt(s_owl_object_property, D1(n_p, D2(s_Domain, owl_Thing, s_Range, owl_Thing)))>>

\* the keywords registered with create_nm_parse_function_cf
ContainerKeywords ==
    {s_EquivalentTo, s_Domain, s_Range, s_Facts, s_Characteristics, s_Inverse, s_Subject,
     s_Body, s_X_associatedRoles}

\* the values given to a parse function: a name, a name that is not
\* declared, a number; lists of one, two and three names, of a name that is
\* not declared, of a number, of a fact; dicts of one and of two keywords and
\* of a key that is no keyword
KeywordArgs ==
    {YStr(n_A), YStr(t_u), YInt(3),
     YList(<<YStr(n_A)>>),
     YList(<<YStr(n_A), YStr(n_B)>>),
     YList(<<YStr(n_B), YStr(n_A), YStr(n_C)>>),
     YList(<<YStr(n_C), YStr(n_C)>>),
     YList(<<YStr(n_A), YStr(t_u)>>),
     YList(<<YInt(3)>>),
     YList(<<D1(n_a, YStr(n_a))>>),
     D1(s_Or, YList(<<YStr(n_A), YStr(n_B)>>)),
     D1(s_And, YList(<<YStr(n_B), YStr(n_C)>>)),
     D2(s_Or, YList(<<YStr(n_A), YStr(n_B)>>), s_And, YList(<<YStr(n_B), YStr(n_C)>>)),
     D1(n_p, YStr(n_a))}

\* a call of normal_parse_functions[name](arg) on the loaded manager
CallParseFunction(name, arg) ==
    /\ pc = "done"
    /\ k < MaxCalls
    /\ ret' = TreeParseFunction(Self, name, arg).ret
    /\ err' = TreeParseFunction(Self, name, arg).err
    /\ k' = k + 1
    /\ stmt' = [t |-> "call", args |-> <<YStr(name), arg>>, f |-> "TreeParseFunction"]
    /\ UNCHANGED <<name_mapping, roles, concepts, rules, imported_ontologies, RelationConcept,
                   RelationConcept_generic_main_role, relation_concept_main_roles,
                   auto_generated_name_numbers, custom_attribute_store, objects,
                   restriction_type_names, world, onto, raw_data, n, pc>>

InitKeywords == Loaded(KeywordPrelude)

NextKeywords == \E name \in ContainerKeywords, arg \in KeywordArgs : CallParseFunction(name, arg)

SpecKeywords == InitKeywords /\ [][NextKeywords]_vars

KeywordCalled == k > 0 /\ stmt.t = "call" /\ stmt.f = "TreeParseFunction"
Keyword == stmt.args[1].s
Arg == stmt.args[2]

\* the list a value is read as: a plain string given to Domain or Range (the
\* keywords registered with ensure_list_flag) is the list of that string
AsList(name, arg) ==
    IF IsStr(arg) /\ name \in {s_Domain, s_Range} THEN YList(<<arg>>) ELSE arg

\* a list of one or more declared names
IsNameList(v) ==
    /\ IsList(v)
    /\ Len(v.items) >= 1
    /\ \A i \in 1..Len(v.items) : IsStr(v.items[i]) /\ v.items[i].s \in DOMAIN name_mapping

\* the entities the names of a list stand for, in the order of the list
TermsOf(v) == [i \in 1..Len(v.items) |-> name_mapping[v.items[i].s]]

\* C24: a Domain or Range list of one term gives the term, a list of two or
\* more gives one Or over the resolved terms in their order, and a plain
\* string is read as the list of that string; an EquivalentTo list of one
\* term gives the term and one of two or more gives one And. Every element
\* is resolved as a name first: a list with an element that is no declared
\* name is rejected.
C24_ListsReduce ==
    (KeywordCalled /\ Keyword \in {s_Domain, s_Range, s_EquivalentTo}
        /\ IsList(AsList(Keyword, Arg))) =>
       IF IsNameList(AsList(Keyword, Arg))
       THEN /\ ~IsErr(err)
            /\ ret.data =
                  IF Len(AsList(Keyword, Arg).items) = 1 THEN TermsOf(AsList(Keyword, Arg))[1]
                  ELSE [t |-> IF Keyword = s_EquivalentTo THEN "And" ELSE "Or",
                        args |-> TermsOf(AsList(Keyword, Arg))]
       ELSE err.type \in {"UnknownEntityError", "AssertionError"}

\* Domain: [B, A, C] gave Or(B, A, C)
C24_Witness ==
    /\ KeywordCalled
    /\ Keyword = s_Domain
    /\ Arg = YList(<<YStr(n_B), YStr(n_A), YStr(n_C)>>)
    /\ ret.data = [t |-> "Or", args |-> <<Ent("Class", n_B), Ent("Class", n_A), Ent("Class", n_C)>>]

\* ----------------------------------------------- containers of the keywords
\* the keywords whose parse function resolves the names of a list itself
\* (resolve_names); Facts and X_associatedRoles leave it to resolve_key_and_value
ResolvingKeywords == ContainerKeywords \ {s_Facts, s_X_associatedRoles}

\* what the container of a keyword holds for the list of the parsed elements
Reduced(name, results) ==
    IF name \in {s_EquivalentTo, s_Domain, s_Range} /\ Len(results) = 1 THEN results[1]
    ELSE IF name = s_EquivalentTo THEN [t |-> "And", args |-> results]
    ELSE IF name \in {s_Domain, s_Range} THEN [t |-> "Or", args |-> results]
    ELSE YList(results)

\* what the dicts given to a parse function hold, parsed: Or(A, B) and And(B, C)
ParsedConnectives ==
    {[t |-> "Or", args |-> <<Ent("Class", n_A), Ent("Class", n_B)>>],
     [t |-> "And", args |-> <<Ent("Class", n_B), Ent("Class", n_C)>>]}

\* C25 as stated: every keyword registered with the container factory, given
\* a scalar string, a list or a dict that it accepts, returns a container
\* with the name of the keyword.
C25_AlwaysContainer ==
    (KeywordCalled /\ ~IsErr(err)) =>
        /\ ret.t = "container"
        /\ ret.name = Keyword

\* C25, amended: given a list or a dict that it accepts, every keyword
\* registered with the container factory returns a container with the name
\* of the keyword that holds the reduced data: one entry for each element of
\* the list or key of the dict, under Domain, Range and EquivalentTo reduced
\* to the single term or the connective. A scalar string gives such a
\* container under Domain and Range alone, which read it as the list of that
\* string; under the other keywords it does not pass the container factory:
\* the entity of that name is returned as it is (the string itself under
\* Facts and X_associatedRoles, which resolve no names).
C25_ContainerUnlessScalar ==
    (KeywordCalled /\ ~IsErr(err)) =>
        IF IsStr(Arg) /\ Keyword \notin {s_Domain, s_Range}
        THEN ret = IF Keyword \in ResolvingKeywords THEN name_mapping[Arg.s] ELSE Arg
        ELSE /\ ret.t = "container"
             /\ ret.name = Keyword
             /\ IsNameList(AsList(Keyword, Arg)) =>
                   ret.data = Reduced(Keyword, TermsOf(AsList(Keyword, Arg)))
             /\ (IsList(Arg) /\ Keyword \notin ResolvingKeywords) =>
                   ret.data.t = "list" /\ Len(ret.data.items) = Len(Arg.items)
             /\ IsDict(Arg) =>
                   \E results \in [1..Len(Arg.pairs) -> ParsedConnectives] :
                       ret.data = Reduced(Keyword, results)

\* Characteristics: [A, B] gave the container Characteristics of the two entities
C25_Witness ==
    /\ KeywordCalled
    /\ Keyword = s_Characteristics
    /\ Arg = YList(<<YStr(n_A), YStr(n_B)>>)
    /\ ret = [t |-> "container", name |-> s_Characteristics,
              data |-> YList(<<Ent("Class", n_A), Ent("Class", n_B)>>)]

\* ------------------------------- facts of a functional property with an inverse
\* the document read before the facts: the individuals a, b and c, the
\* property p (InverseFunctional), its inverse g (so Functional), the
\* functional property f without an inverse and the data property d
AssignPrelude ==
    <<Stmt(s_owl_multiple_individuals,
           D2(s_names, YList(<<YStr(n_a), YStr(n_b), YStr(n_c)>>), s_types, L1(owl_Thing))),
      PropertyOf(s_owl_object_property, n_p, owl_Thing, owl_Thing, <<YStr(s_InverseFunctional)>>),
      InverseOf(n_g, n_p),
      PropertyOf(s_owl_object_property, n_f, owl_Thing, owl_Thing, <<YStr(s_Functional)>>),
      Stmt(s_owl_data_property, D1(n_d, D2(s_Domain, owl_Thing, s_Range, YStr(s_int))))>>

owl_Nothing == YStr(s_owl_Nothing)

\* property_facts statements: facts of g and f with owl:Nothing as the value,
\* alone, before and between other facts, and facts of d and p whose subject
\* is the type int, which has no attribute of the name of a property
AssignStatements ==
    {FactsOf(n_g, <<Fact(n_a, owl_Nothing)>>),
     FactsOf(n_g, <<Fact(n_a, owl_Nothing), Fact(n_b, YStr(n_c))>>),
     FactsOf(n_g, <<Fact(n_b, owl_Nothing), Fact(n_a, YStr(n_c)), Fact(n_c, owl_Nothing)>>),
     FactsOf(n_g, <<Fact(n_a, YStr(n_b))>>),
     FactsOf(n_g, <<Fact(n_c, YStr(n_a)), Fact(n_b, YStr(n_a))>>),
     FactsOf(n_f, <<Fact(n_a, owl_Nothing), Fact(n_b, YStr(n_a))>>),
     FactsOf(n_f, <<Fact(n_a, YStr(n_b))>>),
     FactsOf(n_d, <<Fact(n_a, YInt(1))>>),
     FactsOf(n_d, <<Fact(s_int, YInt(3))>>),
     FactsOf(n_d, <<Fact(n_a, YInt(1)), Fact(s_int, YInt(3)), Fact(n_b, YInt(2))>>),
     FactsOf(n_p, <<Fact(s_int, YStr(n_b)), Fact(n_c, YStr(n_b))>>)}

assign_facts == \E s \in AssignStatements : LoadStatement(s)

InitAssign == ReadSoFar(AssignPrelude)

NextAssign == assign_facts \/ FinishLoad

SpecAssign == InitAssign /\ [][NextAssign]_vars

\* the property and the facts of a property_facts statement, in their order
FactsProp(s) == s.pairs[1].val.pairs[1].key
FactSeq(s) == DictGet(s.pairs[1].val.pairs[1].val, s_Facts).items
FactSubject(fact) == fact.pairs[1].key
FactValue(fact) == fact.pairs[1].val

\* the positions of the facts whose subject is no individual
BadSubjects(s) ==
    {i \in 1..Len(FactSeq(s)) : FactSubject(FactSeq(s)[i]) \notin {n_a, n_b, n_c}}

C27_ContainerOfNames ==
    [][/\ DOMAIN name_mapping \subseteq DOMAIN name_mapping'
       /\ pc' = "done" =>
             /\ n'.t = "Container"
             /\ DOMAIN n'.dict = DOMAIN name_mapping'
             /\ \A x \in DOMAIN name_mapping' : n'.dict[x] = name_mapping'[x]]_vars

\* a load of statements that declared names succeeded, and n has them
C27_Witness ==
    /\ pc = "done"
    /\ k >= 2
    /\ DOMAIN name_mapping # DOMAIN InitialNameMapping
    /\ DOMAIN n.dict = DOMAIN name_mapping
    /\ \E x \in DOMAIN name_mapping \ DOMAIN InitialNameMapping : n.dict[x] = name_mapping[x]

\* ------------------ relation individuals and individuals of the same names
\* owl_individual statements that declare individuals under the names the
\* relation individuals of X_R and X_S get
NamedLikeRelations ==
    {Stmt(s_owl_individual, D1(RelationName(n_X_R, 0), D1(s_types, L1(owl_Thing)))),
     Stmt(s_owl_individual, D1(RelationName(n_X_R, 1), D1(s_types, L1(owl_Thing)))),
     Stmt(s_owl_individual, D1(RelationName(n_X_S, 0), D1(s_types, L1(YStr(n_X_R)))))}

individual_or_relation ==
    \E s \in NamedLikeRelations \cup RelationConceptFacts : LoadStatement(s)

InitAutoNames == ReadSoFar(RelationConceptPrelude)

NextAutoNames == individual_or_relation \/ FinishLoad

SpecAutoNames == InitAutoNames /\ [][NextAutoNames]_vars

\* auto_generated_name_numbers[rc_type] of the class named concept, a defaultdict(int)
NameNumber(numbers, concept) ==
    IF Ent("Class", concept) \in DOMAIN numbers THEN numbers[Ent("Class", concept)] ELSE 0

\* C28: the name i<C>_<n> given to a new relation individual is no name of
\* the namespace before: no statement that advances the number of a concept
\* type C from n to m gives a name i<C>_n .. i<C>_(m-1) that the name mapping
\* held already, and the library holds no individual of that name before.
C28_AutoNamesAreNew ==
    [][\A concept \in {n_X_R, n_X_S} :
          \A number \in NameNumber(auto_generated_name_numbers, concept)
                        ..(NameNumber(auto_generated_name_numbers', concept) - 1) :
             /\ RelationName(concept, number) \notin DOMAIN name_mapping
             /\ RelationName(concept, number) \notin DOMAIN world]_vars

\* ------------------------------------------ the parser between two calls
\* the manager with a parser as __init__ leaves it
WithFreshParser == [Self EXCEPT !.objects = None, !.restriction_type_names = None]

\* C29: the result of process_restriction_body depends on the body and the
\* role table alone: after whatever calls were made before, those that failed
\* and left roles and restriction types in the lists among them, a call
\* returns, or fails with, what a parser as new returns or fails with; and a
\* walk that returns has collected one object more than restriction types:
\* with the terminal value taken off, the two lists are of the same length,
\* one entry for each level of the body.
C29_ParserHasNoMemory ==
    [][(k' = k + 1 /\ stmt'.f = "process_restriction_body") =>
          /\ ret' = process_restriction_body(WithFreshParser, stmt'.args[1]).ret
          /\ err' = process_restriction_body(WithFreshParser, stmt'.args[1]).err
          /\ ~IsErr(err') =>
                /\ Len(objects') = Len(restriction_type_names')
                /\ Len(objects') = Len(DocLayers(stmt'.args[1]))]_vars

\* the second call gave the restriction of its body, of two levels
C29_Witness ==
    /\ ParserCalled
    /\ k = 2
    /\ Body = Layer(n_p, s_some, Layer(n_q, s_value, YStr(n_a)))
    /\ ret = Restriction(roles[n_p], s_some, Restriction(roles[n_q], s_value, name_mapping[n_a]))
    /\ Len(objects) = 2
    /\ Len(restriction_type_names) = 2


\* ------------------------------------- statements that fail part of the way
\* the document read before: X_RelationConcept and its subclass X_R (which
\* brings the role X_hasR), the individuals a and b, the object property p
\* and the data property d
FailingPrelude ==
    <<Stmt(s_owl_class, D1(s_X_RelationConcept, D1(s_SubClassOf, owl_Thing))),
      RelationConceptClass(n_X_R),
      Stmt(s_owl_multiple_individuals,
           D2(s_names, YList(<<YStr(n_a), YStr(n_b)>>), s_types, L1(owl_Thing))),
      Stmt(s_owl_object_property, D1(n_p, D2(s_Domain, owl_Thing, s_Range, owl_Thing))),
      Stmt(s_owl_data_property, D1(n_d, D2(s_Domain, owl_Thing, s_Range, YStr(s_int))))>>

\* a subclass of X_RelationConcept whose name does not start with X_
ClassWithoutPrefix == RelationConceptClass(n_Rel)

\* an object property with a fact whose value is a number
PropertyWithRejectedFact ==
    Stmt(s_owl_object_property,
         D1(n_q, YDict(<<KV(s_Domain, owl_Thing), KV(s_Range, owl_Thing),
                         KV(s_Facts, L1(Fact(n_a, YInt(5))))>>)))

\* individuals c and a, of which a is declared
IndividualsWithCollision ==
    Stmt(s_owl_multiple_individuals,
         D2(s_names, YList(<<YStr(n_c), YStr(n_a)>>), s_types, L1(owl_Thing)))

\* a relation whose value of the object property p is a number
RelationWithRejectedValue ==
    Stmt(s_relation_concept_facts, D1(n_a, D1(n_X_hasR, L1(D1(n_p, YInt(5))))))

\* an individual under the declared name a
IndividualDeclaredTwice == Stmt(s_owl_individual, D1(n_a, D1(s_types, L1(owl_Thing))))

\* statements that are applied, and the statements that fail
FailingStatements ==
    {Stmt(s_owl_class, D1(n_B, D1(s_SubClassOf, owl_Thing))),
     Stmt(s_owl_individual, D1(n_c, D1(s_types, L1(owl_Thing)))),
     Stmt(s_owl_object_property,
          D1(n_r, YDict(<<KV(s_Domain, owl_Thing), KV(s_Range, owl_Thing),
                          KV(s_Facts, L1(Fact(n_a, YStr(n_b))))>>))),
     Stmt(s_relation_concept_facts, D1(n_a, D1(n_X_hasR, L1(Relation(1))))),
     Stmt(s_relation_concept_facts, D1(n_b, D1(n_X_hasR, YList(<<Relation(2), Relation(3)>>)))),
     ClassWithoutPrefix, PropertyWithRejectedFact, IndividualsWithCollision,
     RelationWithRejectedValue, IndividualDeclaredTwice}

statement_that_may_fail == \E s \in FailingStatements : LoadStatement(s)

InitFailing == ReadSoFar(FailingPrelude)

NextFailing == statement_that_may_fail \/ FinishLoad

SpecFailing == InitFailing /\ [][NextFailing]_vars

\* C30 as stated: a statement that ends in an error leaves the name mapping,
\* the role table, the concept list and the name numbers as they were.
C30_FailureChangesNothing ==
    [][(k' = k + 1 /\ IsErr(err')) =>
          /\ name_mapping' = name_mapping
          /\ roles' = roles
          /\ concepts' = concepts
          /\ auto_generated_name_numbers' = auto_generated_name_numbers]_vars

\* C30, amended: a statement that ends in an error is not undone. The name
\* mapping, the role table, the concept list and the name numbers keep what
\* they held before it (no name, role or concept is taken away and no number
\* goes down), and they keep what the statement registered before it failed:
\* the class rejected for the missing X_ prefix is in the name mapping and the
\* concept list, the property whose fact is rejected is in the name mapping
\* and the role table, the name in front of the colliding one of an
\* owl_multiple_individuals list is registered, and the number advanced for a
\* relation individual stays advanced. A statement that fails before it
\* registers anything (an individual under a declared name) leaves them as
\* they were.
C30_FailureKeepsRegistrations ==
    [][(k' = k + 1 /\ IsErr(err')) =>
          /\ DOMAIN name_mapping \subseteq DOMAIN name_mapping'
          /\ DOMAIN roles \subseteq DOMAIN roles'
          /\ Len(concepts) <= Len(concepts')
          /\ SubSeq(concepts', 1, Len(concepts)) = concepts
          /\ NameNumber(auto_generated_name_numbers', n_X_R)
                >= NameNumber(auto_generated_name_numbers, n_X_R)
          /\ stmt' = ClassWithoutPrefix =>
                /\ n_Rel \notin DOMAIN name_mapping
                /\ n_Rel \in DOMAIN name_mapping'
                /\ concepts' = Append(concepts, Ent("Class", n_Rel))
          /\ stmt' = PropertyWithRejectedFact =>
                /\ n_q \notin DOMAIN name_mapping
                /\ n_q \in DOMAIN name_mapping'
                /\ n_q \in DOMAIN roles'
          /\ (stmt' = IndividualsWithCollision /\ n_c \notin DOMAIN name_mapping) =>
                /\ err'.args = <<n_a>>
                /\ n_c \in DOMAIN name_mapping'
          /\ stmt' = RelationWithRejectedValue =>
                NameNumber(auto_generated_name_numbers', n_X_R)
                   = NameNumber(auto_generated_name_numbers, n_X_R) + 1
          /\ stmt' = IndividualDeclaredTwice =>
                /\ name_mapping' = name_mapping
                /\ roles' = roles
                /\ concepts' = concepts
                /\ auto_generated_name_numbers' = auto_generated_name_numbers]_vars

\* the class Rel was rejected for its name and is in the name mapping and
\* the concept list
C30_Witness ==
    /\ pc = "failed"
    /\ stmt = ClassWithoutPrefix
    /\ err.fmt = "Names of subclasses of X_RelationConcept are expected to start with X_."
    /\ n_Rel \in DOMAIN name_mapping
    /\ concepts[Len(concepts)] = Ent("Class", n_Rel)
====
